---- MODULE Spec2Model ----
(***************************************************************************)
(* Verification model of the Civilisation OS deterministic state           *)
(* transition kernel (kernel/src): EpochState commitment, the witness      *)
(* protocol (bundle hash, signing root, quorum, Model A pool mutations),   *)
(* the entropy scalar and the apply_epoch / apply_epoch_dry_run            *)
(* transitions.                                                            *)
(*                                                                         *)
(* Conventions                                                             *)
(*  - u64 / u128 values are exact naturals held as little-endian limb     *)
(*    sequences without a leading zero limb (zero is << >>), because the   *)
(*    kernel's constants (u64::MAX, u128::MAX, SCALE = 10^12) exceed the   *)
(*    range of TLC integers.                                               *)
(*  - SHA-256 is collision-free: a digest is the term                      *)
(*    <<"sha256", input>>, where input is the sequence of hashed chunks.   *)
(*    A constant array [b; 32] is <<"raw", b>>; it is never a hash output. *)
(*  - Ed25519 is unforgeable: a signature is the term                      *)
(*    <<"sig", signer, message>>.                                          *)
(*  - A Result is <<"Ok", v>> or <<"Err", kind>>; an arithmetic overflow   *)
(*    of unchecked u64 arithmetic is <<"Panic", at>> in a build with       *)
(*    overflow checks and wraps in a build without them.                   *)
(***************************************************************************)
EXTENDS Integers, Sequences, FiniteSets, TLC

(***************************************************************************)
(* Exact natural-number arithmetic on limb sequences (base BASE,           *)
(* least significant limb first, no leading zero limb, zero = << >>)       *)
(***************************************************************************)

BASE == 100 * 100

RECURSIVE Reverse(_)
Reverse(s) ==
    IF s = << >> THEN << >> ELSE Append(Reverse(Tail(s)), Head(s))

RECURSIVE BNNorm(_)
\* strip leading (most significant) zero limbs
BNNorm(a) ==
    IF a = << >> THEN << >>
    ELSE IF a[Len(a)] = 0 THEN BNNorm(SubSeq(a, 1, Len(a) - 1))
    ELSE a

RECURSIVE BN(_)
\* the limb sequence of a TLC natural
BN(n) ==
    IF n = 0 THEN << >> ELSE <<n % BASE>> \o BN(n \div BASE)

\* the natural whose base-BASE limbs are ls, most significant first
Limbs(ls) ==
    BNNorm(Reverse(ls))

RECURSIVE BNCmpFrom(_, _, _)
\* compare equal-length a and b from limb i downwards: -1, 0, 1
BNCmpFrom(a, b, i) ==
    IF i = 0 THEN 0
    ELSE IF a[i] < b[i] THEN -1
    ELSE IF a[i] > b[i] THEN 1
    ELSE BNCmpFrom(a, b, i - 1)

BNCmp(a, b) ==
    IF Len(a) < Len(b) THEN -1
    ELSE IF Len(a) > Len(b) THEN 1
    ELSE BNCmpFrom(a, b, Len(a))

BNLt(a, b) ==
    BNCmp(a, b) = -1

BNLe(a, b) ==
    BNCmp(a, b) # 1

BNGt(a, b) ==
    BNCmp(a, b) = 1

BNLimb(a, i) ==
    IF i <= Len(a) THEN a[i] ELSE 0

RECURSIVE BNAddFrom(_, _, _, _)
BNAddFrom(a, b, i, carry) ==
    IF i > Len(a) /\ i > Len(b)
    THEN IF carry = 0 THEN << >> ELSE <<carry>>
    ELSE LET s == BNLimb(a, i) + BNLimb(b, i) + carry
         IN  <<s % BASE>> \o BNAddFrom(a, b, i + 1, s \div BASE)

BNAdd(a, b) ==
    BNAddFrom(a, b, 1, 0)

RECURSIVE BNSubFrom(_, _, _, _)
BNSubFrom(a, b, i, borrow) ==
    IF i > Len(a) THEN << >>
    ELSE LET d == a[i] - BNLimb(b, i) - borrow
         IN  IF d < 0
             THEN <<d + BASE>> \o BNSubFrom(a, b, i + 1, 1)
             ELSE <<d>> \o BNSubFrom(a, b, i + 1, 0)

\* a - b for a >= b
BNSub(a, b) ==
    BNNorm(BNSubFrom(a, b, 1, 0))

RECURSIVE BNMulSmallFrom(_, _, _, _)
BNMulSmallFrom(a, k, i, carry) ==
    IF i > Len(a)
    THEN BN(carry)
    ELSE LET p == a[i] * k + carry
         IN  <<p % BASE>> \o BNMulSmallFrom(a, k, i + 1, p \div BASE)

\* a * k for a natural k < BASE
BNMulSmall(a, k) ==
    IF k = 0 \/ a = << >> THEN << >> ELSE BNMulSmallFrom(a, k, 1, 0)

BNShift(a) ==
    IF a = << >> THEN << >> ELSE <<0>> \o a

RECURSIVE BNMulAcc(_, _, _, _)
\* Horner's scheme over the limbs of b, most significant first
BNMulAcc(a, b, i, acc) ==
    IF i = 0 THEN acc
    ELSE IF acc = << >> THEN BNMulAcc(a, b, i - 1, BNMulSmall(a, b[i]))
    ELSE BNMulAcc(a, b, i - 1, BNAdd(BNMulSmall(a, b[i]), BNShift(acc)))

BNMul(a, b) ==
    BNMulAcc(a, b, Len(b), << >>)

RECURSIVE BNTrial(_, _, _, _)
\* the largest q in lo..hi with q * b <= r (bisection; lo * b <= r holds)
BNTrial(r, b, lo, hi) ==
    IF lo = hi THEN lo
    ELSE LET mid == (lo + hi + 1) \div 2
         IN  IF BNLe(BNMulSmall(b, mid), r)
             THEN BNTrial(r, b, mid, hi)
             ELSE BNTrial(r, b, lo, mid - 1)

\* one step of long division: the quotient limb t of r1 by b, and what is left
BNDivModLimb(r1, b, t) ==
    <<t, BNSub(r1, BNMulSmall(b, t))>>

BNDivModStep(r1, b) ==
    BNDivModLimb(r1, b, BNTrial(r1, b, 0, BASE - 1))

RECURSIVE BNDivModFrom(_, _, _, _, _)
RECURSIVE BNDivModNext(_, _, _, _, _)
\* schoolbook long division, from the most significant limb i of a down
BNDivModFrom(a, b, i, q, r) ==
    IF i = 0 THEN <<BNNorm(q), r>>
    ELSE IF r = << >> /\ a[i] = 0 THEN BNDivModFrom(a, b, i - 1, <<0>> \o q, << >>)
    ELSE BNDivModNext(a, b, i, q, BNDivModStep(BNNorm(<<a[i]>> \o r), b))

BNDivModNext(a, b, i, q, step) ==
    BNDivModFrom(a, b, i - 1, <<step[1]>> \o q, step[2])

\* floor(a / b) for b > 0
BNDiv(a, b) ==
    BNDivModFrom(a, b, Len(a), << >>, << >>)[1]

\* a mod b for b > 0
BNMod(a, b) ==
    BNDivModFrom(a, b, Len(a), << >>, << >>)[2]

RECURSIVE BNDivModSmallFrom(_, _, _, _, _)
\* long division by a natural 0 < k < BASE, from the most significant limb i
BNDivModSmallFrom(a, k, i, q, r) ==
    IF i = 0 THEN <<BNNorm(q), r>>
    ELSE LET cur == r * BASE + a[i]
         IN  BNDivModSmallFrom(a, k, i - 1, <<cur \div k>> \o q, cur % k)

\* floor(a / k) for a natural 0 < k < BASE
BNDivSmall(a, k) ==
    BNDivModSmallFrom(a, k, Len(a), << >>, 0)[1]

\* a mod k, a TLC natural, for a natural 0 < k < BASE
BNModSmall(a, k) ==
    BNDivModSmallFrom(a, k, Len(a), << >>, 0)[2]

RECURSIVE BNToInt(_)
\* the TLC integer of a limb sequence known to be small
BNToInt(a) ==
    IF a = << >> THEN 0 ELSE a[1] + BASE * BNToInt(Tail(a))

\* u64::MAX = 18446744073709551615
U64_MAX ==
    Limbs(<<1844, 6744, 737, 955, 1615>>)

\* u128::MAX = 340282366920938463463374607431768211455
U128_MAX ==
    Limbs(<<340, 2823, 6692, 938, 4634, 6337, 4607, 4317, 6821, 1455>>)

(***************************************************************************)
(* Results and error kinds (lib.rs)                                        *)
(***************************************************************************)

Ok(v) == <<"Ok", v>>

Err(e) == <<"Err", e>>

Panic(at) == <<"Panic", at>>

IsOk(r) == r[1] = "Ok"

IsErr(r) == r[1] = "Err"

IsPanic(r) == r[1] = "Panic"

\* the ? operator: the rest of the function runs on the value of an Ok, and
\* anything else is returned as it is
AndThen(r, rest(_)) == IF IsOk(r) THEN rest(r[2]) ELSE r

\* Result::unwrap_or
unwrap_or(r, default) == IF IsOk(r) THEN r[2] ELSE default

\* the unit value of Ok(())
Unit == << >>

TransitionError ==
    { "MathOverflow", "DivisionByZero", "InvalidSerialization", "DuplicateKey",
      "InvalidMerkleWitness", "InvalidVdfProof", "InvalidSignature",
      "BondTooSmall", "PayloadLimitExceeded", "FraudWindowExpired",
      "KernelHashMismatch" }

(***************************************************************************)
(* Byte strings (Vec<u8>, [u8; N]) and their lexicographic order           *)
(***************************************************************************)

RECURSIVE BytesCmpFrom(_, _, _)
\* Ord for [u8]: -1, 0, 1, comparing from index i
BytesCmpFrom(a, b, i) ==
    IF i > Len(a) /\ i > Len(b) THEN 0
    ELSE IF i > Len(a) THEN -1
    ELSE IF i > Len(b) THEN 1
    ELSE IF a[i] < b[i] THEN -1
    ELSE IF a[i] > b[i] THEN 1
    ELSE BytesCmpFrom(a, b, i + 1)

BytesCmp(a, b) ==
    BytesCmpFrom(a, b, 1)

BytesLe(a, b) ==
    BytesCmp(a, b) # 1

BytesGe(a, b) ==
    BytesCmp(a, b) # -1

BytesLt(a, b) ==
    BytesCmp(a, b) = -1

RECURSIVE Concat(_, _, _)
\* the concatenation of parts[lo..hi], by halves
Concat(parts, lo, hi) ==
    IF lo > hi THEN << >>
    ELSE IF lo = hi THEN parts[lo]
    ELSE LET mid == (lo + hi) \div 2
         IN  Concat(parts, lo, mid) \o Concat(parts, mid + 1, hi)

RECURSIVE to_be_bytes_int(_, _)
\* the w-byte big-endian encoding of n mod 256^w (n a TLC natural)
to_be_bytes_int(n, w) ==
    IF w = 0 THEN << >>
    ELSE Append(to_be_bytes_int(n \div 256, w - 1), n % 256)

RECURSIVE to_be_bytes(_, _)
\* the w-byte big-endian encoding of n mod 256^w (n a limb sequence)
to_be_bytes(n, w) ==
    IF w = 0 THEN << >>
    ELSE Append(to_be_bytes(BNDivSmall(n, 256), w - 1), BNModSmall(n, 256))

(***************************************************************************)
(* physics/hashing.rs: SHA-256 and the Merkle domain separation            *)
(***************************************************************************)

\* a run of literal bytes inside a hash input
Bytes(bs) == <<"bytes", bs>>

\* the constant array [b; 32]
RawDigest(b) == <<"raw", b>>

ZERO_DIGEST == RawDigest(0)

LEAF_PREFIX == 0

NODE_PREFIX == 1

SIGNING_DOMAIN_PREFIX == 2

sha256(input) == <<"sha256", input>>

hash_leaf(leaf_bytes) ==
    sha256(<<Bytes(<<LEAF_PREFIX>> \o leaf_bytes)>>)

hash_node(left, right) ==
    sha256(<<Bytes(<<NODE_PREFIX>>), left, right>>)

\* physics/merkle.rs
MAX_MERKLE_DEPTH == 40

empty_tree_root ==
    sha256(<<Bytes(<<LEAF_PREFIX>>)>>)

\* 1u128 << MAX_MERKLE_DEPTH = 1_099_511_627_776
max_leaves ==
    Limbs(<<1, 995, 1162, 7776>>)

RECURSIVE double_until(_, _)
\* while result < n { result <<= 1 }
double_until(result, n) ==
    IF result < n THEN double_until(2 * result, n) ELSE result

next_power_of_two(n) ==
    IF n <= 1 THEN 1 ELSE double_until(1, n)

RECURSIVE pad_with_first(_, _)
\* the padding done with the first node instead of the last
pad_with_first(nodes, padded_len) ==
    IF Len(nodes) < padded_len
    THEN pad_with_first(Append(nodes, nodes[1]), padded_len)
    ELSE nodes

\* the padding done with the hash of the empty leaf instead of the last node
pad_with_empty_leaf(nodes, padded_len) ==
    [i \in 1..padded_len |-> IF i <= Len(nodes) THEN nodes[i] ELSE hash_leaf(<< >>)]

RECURSIVE pad(_, _)
\* while nodes.len() < padded_len { nodes.push(last) }
pad(nodes, padded_len) ==
    IF Len(nodes) < padded_len
    THEN pad(Append(nodes, nodes[Len(nodes)]), padded_len)
    ELSE nodes

\* one hash_node per pair of chunks_exact(2)
pairs_hashed(nodes) ==
    [i \in 1..(Len(nodes) \div 2) |-> hash_node(nodes[2 * i - 1], nodes[2 * i])]

\* an odd level of more than one node gets its last node once more
duplicate_if_odd(next_level) ==
    IF Len(next_level) % 2 # 0 /\ Len(next_level) > 1
    THEN Append(next_level, next_level[Len(next_level)])
    ELSE next_level

RECURSIVE build_tree(_)
\* while nodes.len() > 1 { nodes = next_level }
build_tree(nodes) ==
    IF Len(nodes) > 1
    THEN build_tree(duplicate_if_odd(pairs_hashed(nodes)))
    ELSE nodes

compute_merkle_root(leaves) ==
    IF leaves = << >> THEN Ok(empty_tree_root)
    ELSE IF BNGt(BN(Len(leaves)), max_leaves) THEN Err("PayloadLimitExceeded")
    ELSE Ok(build_tree(pad([i \in 1..Len(leaves) |-> hash_leaf(leaves[i])],
                           next_power_of_two(Len(leaves))))[1])

(***************************************************************************)
(* physics/ed25519.rs                                                      *)
(***************************************************************************)

\* the signature the holder of pubkey's secret key makes over message
Sign(pubkey, message) == <<"sig", pubkey, message>>

ed25519_verify(pubkey, message, signature) ==
    IF signature = Sign(pubkey, message) THEN Ok(Unit) ELSE Err("InvalidSignature")

(***************************************************************************)
(* math/fixed.rs and state/entropy.rs                                      *)
(***************************************************************************)

\* SCALE = 1_000_000_000_000
SCALE ==
    Limbs(<<1, 0, 0, 0>>)

MAX_SAFE_BALANCE_RAW ==
    BNDiv(U128_MAX, SCALE)

\* the exact value p as a u128, if it is one
checked_u128(p) ==
    IF BNGt(p, U128_MAX) THEN Err("MathOverflow") ELSE Ok(p)

\* u128::checked_mul
checked_mul_u128(a, b) ==
    checked_u128(BNMul(a, b))

\* from_raw without the test against MAX_SAFE_BALANCE_RAW
from_raw_unchecked(raw) ==
    Ok(raw)

from_raw(raw) ==
    IF BNGt(raw, MAX_SAFE_BALANCE_RAW) THEN Err("MathOverflow") ELSE Ok(raw)

from_units(whole_units) ==
    AndThen(checked_mul_u128(whole_units, SCALE), from_raw)

mul_scaled(self, other) ==
    AndThen(checked_mul_u128(self, other),
            LAMBDA product : from_raw(BNDiv(product, SCALE)))

div_scaled(self, other) ==
    IF other = << >> THEN Err("DivisionByZero")
    ELSE AndThen(checked_mul_u128(self, SCALE),
                 LAMBDA numerator : from_raw(BNDiv(numerator, other)))

\* the digit at place j of a decimal string, 0 to the left of the string
DigitAt(s, j) ==
    IF j >= 1 THEN s[j] - 48 ELSE 0

\* the number a string of decimal digits stands for: four digits to a limb,
\* from the right
parse_decimal(s) ==
    BNNorm([k \in 1..((Len(s) + 3) \div 4) |->
               DigitAt(s, Len(s) - 4 * k + 4)
               + 10 * DigitAt(s, Len(s) - 4 * k + 3)
               + 100 * DigitAt(s, Len(s) - 4 * k + 2)
               + 1000 * DigitAt(s, Len(s) - 4 * k + 1)])

\* str::parse::<u128> on a string of ASCII digits: the only failure left is a
\* value above u128::MAX
parse_u128(s) ==
    checked_u128(parse_decimal(s))

from_canonical_str(s) ==
    IF ~(\/ s = <<48>>
         \/ /\ s # << >>
            /\ s[1] # 48
            /\ \A i \in 1..Len(s) : s[i] >= 48 /\ s[i] <= 57)
    THEN Err("InvalidSerialization")
    ELSE AndThen(parse_u128(s), from_raw)

\* u128::checked_add
checked_add_u128(a, b) ==
    checked_u128(BNAdd(a, b))

\* u128::checked_sub
checked_sub_u128(a, b) ==
    IF BNLt(a, b) THEN Err("MathOverflow") ELSE Ok(BNSub(a, b))

checked_add(self, other) ==
    AndThen(checked_add_u128(self, other), from_raw)

\* checked_sub clamping at zero as saturating_sub_for_slash does
checked_sub_saturating(self, other) ==
    IF BNLt(self, other) THEN Ok(<< >>) ELSE Ok(BNSub(self, other))

\* the difference is wrapped without from_raw
checked_sub(self, other) ==
    AndThen(checked_sub_u128(self, other), Ok)

\* u128::saturating_sub
saturating_sub_for_slash(self, slash_amount) ==
    IF BNLt(self, slash_amount) THEN << >> ELSE BNSub(self, slash_amount)

is_zero(self) ==
    self = << >>

zero ==
    << >>

\* DECAY_FACTOR_SCALED = 943_932_824_245
DECAY_FACTOR_SCALED ==
    Limbs(<<9439, 3282, 4245>>)

decay_factor ==
    from_raw(DECAY_FACTOR_SCALED)

apply_decay(balance) ==
    AndThen(decay_factor, LAMBDA factor : mul_scaled(balance, factor))

\* compute_entropy without the zero test that comes first in the source
compute_entropy_no_zero_test(active_bonded_magnitude, total_supply, unique_active_validators, optimal_validator_count) ==
    AndThen(div_scaled(active_bonded_magnitude, total_supply),
    LAMBDA bonded_ratio :
    AndThen(from_units(unique_active_validators),
    LAMBDA unique_val_fixed :
    AndThen(from_units(optimal_validator_count),
    LAMBDA optimal_val_fixed :
    AndThen(div_scaled(unique_val_fixed, optimal_val_fixed),
    LAMBDA validator_ratio :
    mul_scaled(bonded_ratio, validator_ratio)))))

compute_entropy(active_bonded_magnitude, total_supply, unique_active_validators, optimal_validator_count) ==
    IF is_zero(total_supply) \/ optimal_validator_count = << >>
    THEN Err("DivisionByZero")
    ELSE AndThen(div_scaled(active_bonded_magnitude, total_supply),
         LAMBDA bonded_ratio :
         AndThen(from_units(unique_active_validators),
         LAMBDA unique_val_fixed :
         AndThen(from_units(optimal_validator_count),
         LAMBDA optimal_val_fixed :
         AndThen(div_scaled(unique_val_fixed, optimal_val_fixed),
         LAMBDA validator_ratio :
         mul_scaled(bonded_ratio, validator_ratio)))))

(***************************************************************************)
(* State of the model                                                      *)
(*   overflow_checks  the build profile: TRUE when unchecked integer       *)
(*                    arithmetic panics on overflow, FALSE when it wraps   *)
(*   chain            the committed states the caller holds, oldest first; *)
(*                    the last one is the prev of the next call            *)
(*   call             the arguments of the last call                       *)
(*   result           what the last call returned                          *)
(***************************************************************************)
VARIABLES overflow_checks, chain, call, result

vars == <<overflow_checks, chain, call, result>>

(***************************************************************************)
(* Unchecked u64 arithmetic (the operators * and + on u64)                 *)
(***************************************************************************)

U64_MODULUS ==
    BNAdd(U64_MAX, BN(1))

\* the outcome of an unchecked u64 operation whose exact value is x
unchecked_u64(x) ==
    IF BNLe(x, U64_MAX) THEN Ok(x)
    ELSE IF overflow_checks THEN Panic("attempt to compute with overflow")
    ELSE Ok(BNMod(x, U64_MODULUS))

(***************************************************************************)
(* state/witness.rs                                                        *)
(***************************************************************************)

MAX_KEY_BYTES == 64

MAX_VALUE_BYTES == 4096

\* state/epoch.rs
MAX_PAYLOADS_PER_EPOCH == 10000

MAX_VALIDATOR_SIGNATURES == MAX_PAYLOADS_PER_EPOCH

MerklePathNode(sibling, position) ==
    [sibling |-> sibling, position |-> position]

\* MerklePath::new; a MerklePath is its nodes, and since the field is public
\* a caller can also write one down without going through new
MerklePath_new(nodes) ==
    IF Len(nodes) > MAX_MERKLE_DEPTH
    THEN Err("InvalidMerkleWitness")
    ELSE Ok(nodes)

\* one level up: the parent of current and the sibling of a node
parent(node, current) ==
    IF node.position = "Left"
    THEN hash_node(current, node.sibling)
    ELSE hash_node(node.sibling, current)

RECURSIVE walk_from(_, _, _, _)
\* the loop over nodes lo..hi: the first half of them, then the second half
\* from where the first has come to
walk_from(nodes, lo, hi, current) ==
    IF lo > hi THEN current
    ELSE IF lo = hi THEN parent(nodes[lo], current)
    ELSE CHOOSE root \in { walk_from(nodes, (lo + hi) \div 2 + 1, hi, up) :
                              up \in { walk_from(nodes, lo, (lo + hi) \div 2, current) } } :
             TRUE

\* MerklePath::walk
walk(path, start) ==
    walk_from(path, 1, Len(path), start)

\* MerklePath::verify
verify(path, leaf_hash, expected_root) ==
    IF walk(path, leaf_hash) # expected_root
    THEN Err("InvalidMerkleWitness")
    ELSE Ok(Unit)

\* MerklePath::reconstruct_root
reconstruct_root(path, new_leaf_hash) ==
    walk(path, new_leaf_hash)

LeafMutation(key, old_value, new_value, path) ==
    [key |-> key, old_value |-> old_value, new_value |-> new_value, path |-> path]

\* LeafMutation::validate_sizes
validate_sizes(self) ==
    IF self.key = << >> \/ Len(self.key) > MAX_KEY_BYTES
    THEN Err("InvalidSerialization")
    ELSE IF Len(self.old_value) > MAX_VALUE_BYTES
    THEN Err("InvalidSerialization")
    ELSE IF Len(self.new_value) > MAX_VALUE_BYTES
    THEN Err("InvalidSerialization")
    ELSE Ok(Unit)

EntropyStats(bonded, supply, unique, optimal) ==
    [active_bonded_magnitude_raw |-> bonded, total_supply_raw |-> supply,
     unique_active_validators |-> unique, optimal_validator_count |-> optimal]

\* EntropyStats::validate
EntropyStats_validate(self) ==
    IF BNGt(self.active_bonded_magnitude_raw, self.total_supply_raw)
    THEN Err("MathOverflow")
    ELSE IF self.optimal_validator_count = << >>
    THEN Err("DivisionByZero")
    ELSE Ok(Unit)

ValidatorSignature(validator_pubkey, signature) ==
    [validator_pubkey |-> validator_pubkey, signature |-> signature]

StateWitnessBundle(bond, stats, impact, signatures, validator) ==
    [bond_witnesses |-> bond, entropy_stats |-> stats, impact_witnesses |-> impact,
     validator_signatures |-> signatures, validator_witnesses |-> validator]

\* StateWitnessBundle::validate_limits
validate_limits(self) ==
    LET total == Len(self.bond_witnesses) + Len(self.impact_witnesses)
                 + Len(self.validator_witnesses)
    IN  IF total > MAX_PAYLOADS_PER_EPOCH
        THEN Err("PayloadLimitExceeded")
        ELSE IF Len(self.validator_signatures) > MAX_VALIDATOR_SIGNATURES
        THEN Err("PayloadLimitExceeded")
        ELSE Ok(Unit)

\* the serialisation of a mutation with the length of its path after it
serialize_mutation_with_path(m) ==
    to_be_bytes_int(Len(m.key), 2) \o m.key
    \o to_be_bytes_int(Len(m.old_value), 2) \o m.old_value
    \o to_be_bytes_int(Len(m.new_value), 2) \o m.new_value
    \o to_be_bytes_int(Len(m.path), 2)

\* the bytes serialize_mutations writes for one mutation
serialize_mutation(m) ==
    to_be_bytes_int(Len(m.key), 2) \o m.key
    \o to_be_bytes_int(Len(m.old_value), 2) \o m.old_value
    \o to_be_bytes_int(Len(m.new_value), 2) \o m.new_value

serialize_mutations(buf, mutations) ==
    buf \o to_be_bytes_int(Len(mutations), 4)
        \o Concat([i \in 1..Len(mutations) |-> serialize_mutation(mutations[i])],
                  1, Len(mutations))

compute_bundle_hash(witness) ==
    LET buf1 == serialize_mutations(<< >>, witness.bond_witnesses)
        buf2 == serialize_mutations(buf1, witness.impact_witnesses)
        buf3 == serialize_mutations(buf2, witness.validator_witnesses)
    IN  sha256(<<Bytes(buf3)>>)

\* a signing root that leaves out the kernel hash
compute_epoch_signing_root_no_kernel(prev_state_root, bundle_hash, epoch_number, kernel_hash) ==
    sha256(<<Bytes(<<SIGNING_DOMAIN_PREFIX>>), prev_state_root, bundle_hash,
             Bytes(to_be_bytes(epoch_number, 8))>>)

compute_epoch_signing_root(prev_state_root, bundle_hash, epoch_number, kernel_hash) ==
    sha256(<<Bytes(<<SIGNING_DOMAIN_PREFIX>>), prev_state_root, bundle_hash,
             Bytes(to_be_bytes(epoch_number, 8)), kernel_hash>>)

\* the quorum threshold (2 * optimal_validator_count + 2) / 3 in u64 arithmetic
quorum_threshold(optimal_validator_count) ==
    AndThen(unchecked_u64(BNMulSmall(optimal_validator_count, 2)),
    LAMBDA twice :
    AndThen(unchecked_u64(BNAdd(twice, BN(2))),
    LAMBDA plus2 :
    Ok(BNDivSmall(plus2, 3))))

\* a quorum check that verifies the signatures before it looks at the order
verify_quorum_order_last(signatures, signing_root, optimal_validator_count) ==
    IF \E i \in 1..Len(signatures) :
           IsErr(ed25519_verify(signatures[i].validator_pubkey, signing_root,
                                signatures[i].signature))
    THEN Err("InvalidSignature")
    ELSE IF \E i \in 2..Len(signatures) :
                BytesLe(signatures[i].validator_pubkey,
                        signatures[i - 1].validator_pubkey)
    THEN Err("InvalidSerialization")
    ELSE AndThen(quorum_threshold(optimal_validator_count),
         LAMBDA threshold :
         IF BNLt(BN(Len(signatures)), threshold)
         THEN Err("InvalidSignature")
         ELSE Ok(Unit))

\* the quorum check that counts the signatures that verify and passes over
\* the others
verify_quorum_counts_valid(signatures, signing_root, optimal_validator_count) ==
    IF \E i \in 2..Len(signatures) :
           BytesLe(signatures[i].validator_pubkey, signatures[i - 1].validator_pubkey)
    THEN Err("InvalidSerialization")
    ELSE AndThen(quorum_threshold(optimal_validator_count),
         LAMBDA threshold :
         IF BNLt(BN(Cardinality({ i \in 1..Len(signatures) :
                        IsOk(ed25519_verify(signatures[i].validator_pubkey,
                                            signing_root,
                                            signatures[i].signature)) })),
                 threshold)
         THEN Err("InvalidSignature")
         ELSE Ok(Unit))

verify_quorum(signatures, signing_root, optimal_validator_count) ==
    IF \E i \in 2..Len(signatures) :
           BytesLe(signatures[i].validator_pubkey, signatures[i - 1].validator_pubkey)
    THEN Err("InvalidSerialization")
    ELSE IF \E i \in 1..Len(signatures) :
                IsErr(ed25519_verify(signatures[i].validator_pubkey, signing_root,
                                     signatures[i].signature))
    THEN Err("InvalidSignature")
    ELSE AndThen(quorum_threshold(optimal_validator_count),
         LAMBDA threshold :
         IF BNLt(BN(Len(signatures)), threshold)
         THEN Err("InvalidSignature")
         ELSE Ok(Unit))

RECURSIVE pool_loop_fixed_root(_, _, _)
\* a loop that verifies every path but never moves the intermediate root
pool_loop_fixed_root(mutations, i, intermediate_root) ==
    IF i > Len(mutations) THEN Ok(intermediate_root)
    ELSE AndThen(verify(mutations[i].path, hash_leaf(mutations[i].old_value),
                        intermediate_root),
         LAMBDA verified :
         pool_loop_fixed_root(mutations, i + 1, intermediate_root))

RECURSIVE model_b_loop(_, _, _, _)
model_b_loop(mutations, i, current_root, last_root) ==
    IF i > Len(mutations) THEN Ok(last_root)
    ELSE AndThen(verify(mutations[i].path, hash_leaf(mutations[i].old_value),
                        current_root),
         LAMBDA verified :
         model_b_loop(mutations, i + 1, current_root,
                      reconstruct_root(mutations[i].path,
                                       hash_leaf(mutations[i].new_value))))

RECURSIVE pool_loop(_, _, _)
\* the evolving-root loop of apply_pool_mutations, from mutation i
pool_loop(mutations, i, intermediate_root) ==
    IF i > Len(mutations) THEN Ok(intermediate_root)
    ELSE AndThen(verify(mutations[i].path, hash_leaf(mutations[i].old_value),
                        intermediate_root),
         LAMBDA verified :
         pool_loop(mutations, i + 1,
                   reconstruct_root(mutations[i].path,
                                    hash_leaf(mutations[i].new_value))))

\* Model B: every path is verified against the root the call was given
apply_pool_mutations_model_b(current_root, mutations) ==
    IF mutations = << >> THEN Ok(current_root)
    ELSE IF \E i \in 2..Len(mutations) :
                BytesGe(mutations[i - 1].key, mutations[i].key)
    THEN Err("InvalidSerialization")
    ELSE model_b_loop(mutations, 1, current_root, current_root)

\* an ordering check that lets equal adjacent keys through
apply_pool_mutations_allow_equal(current_root, mutations) ==
    IF mutations = << >> THEN Ok(current_root)
    ELSE IF \E i \in 2..Len(mutations) :
                ~BytesLe(mutations[i - 1].key, mutations[i].key)
    THEN Err("InvalidSerialization")
    ELSE pool_loop(mutations, 1, current_root)

apply_pool_mutations(current_root, mutations) ==
    IF mutations = << >> THEN Ok(current_root)
    ELSE IF \E i \in 2..Len(mutations) :
                BytesGe(mutations[i - 1].key, mutations[i].key)
    THEN Err("InvalidSerialization")
    ELSE pool_loop(mutations, 1, current_root)

(***************************************************************************)
(* physics/canonical_json.rs: the canonicaliser                            *)
(*   A parsed value is <<"Null">>, <<"Bool", b>>, <<"Str", bytes>>,        *)
(*   <<"Array", items>> or <<"Object", pairs>>, pairs being <<key, value>> *)
(*   in input order.  A parser position counts the bytes consumed; a       *)
(*   parsing step returns Ok of a record with the position (and depth)     *)
(*   after it.                                                             *)
(***************************************************************************)

MAX_DEPTH == 32

MAX_OBJECT_FIELDS == 64

MAX_ARRAY_ITEMS == 1024

MAX_INPUT_BYTES == 65536

\* the ASCII bytes the parser and the emitter name
Ch ==
    [quote |-> 34, backslash |-> 92, slash |-> 47, lbrace |-> 123, rbrace |-> 125,
     lbracket |-> 91, rbracket |-> 93, colon |-> 58, comma |-> 44, plus |-> 43,
     minus |-> 45, underscore |-> 95, space |-> 32, tab |-> 9, lf |-> 10, cr |-> 13,
     backspace |-> 8, formfeed |-> 12,
     b |-> 98, f |-> 102, n |-> 110, r |-> 114, t |-> 116, u |-> 117]

\* b"true", b"false", b"null"
Lit ==
    [true |-> <<116, 114, 117, 101>>, false |-> <<102, 97, 108, 115, 101>>,
     null |-> <<110, 117, 108, 108>>]

HEX_LOWER ==
    <<48, 49, 50, 51, 52, 53, 54, 55, 56, 57, 97, 98, 99, 100, 101, 102>>

IsDigit(c) == c >= 48 /\ c <= 57

IsLower(c) == c >= 97 /\ c <= 122

\* Parser::peek: the byte at pos, or -1 at the end
peek(src, pos) ==
    IF pos < Len(src) THEN src[pos + 1] ELSE -1

\* src.get(pos..pos + n) == Some(lit)
slice_is(src, pos, lit) ==
    /\ pos + Len(lit) <= Len(src)
    /\ SubSeq(src, pos + 1, pos + Len(lit)) = lit

RECURSIVE skip_whitespace(_, _)
\* Parser::skip_whitespace: the position after the whitespace at pos
skip_whitespace(src, pos) ==
    IF peek(src, pos) \in { Ch.space, Ch.tab, Ch.lf, Ch.cr }
    THEN skip_whitespace(src, pos + 1)
    ELSE pos

\* Parser::expect: the position after the expected byte
expect(src, pos, expected) ==
    IF peek(src, pos) = expected THEN Ok(pos + 1) ELSE Err("InvalidSerialization")

\* char::to_digit(16)
hex_value(c) ==
    IF IsDigit(c) THEN c - 48
    ELSE IF c >= 97 /\ c <= 102 THEN c - 87
    ELSE IF c >= 65 /\ c <= 70 THEN c - 55
    ELSE -1

RECURSIVE radix16(_, _, _)
radix16(digits, i, acc) ==
    IF i > Len(digits) THEN Ok(acc)
    ELSE IF hex_value(digits[i]) < 0 THEN Err("InvalidSerialization")
    ELSE radix16(digits, i + 1, acc * 16 + hex_value(digits[i]))

\* u32::from_str_radix(s, 16) of four bytes: an optional leading + sign, then
\* hexadecimal digits of either case
from_str_radix(s) ==
    IF s[1] = Ch.plus THEN radix16(Tail(s), 1, 0) ELSE radix16(s, 1, 0)

\* char::from_u32 of a value below 0x10000: no surrogates
from_u32(codepoint) ==
    IF codepoint >= 55296 /\ codepoint <= 57343
    THEN Err("InvalidSerialization")
    ELSE Ok(codepoint)

\* char::encode_utf8 of a scalar below 0x10000
encode_utf8(ch) ==
    IF ch < 128 THEN <<ch>>
    ELSE IF ch < 2048 THEN <<192 + (ch \div 64), 128 + (ch % 64)>>
    ELSE <<224 + (ch \div 4096), 128 + ((ch \div 64) % 64), 128 + (ch % 64)>>

\* the \uXXXX escape at pos (after the u): the bytes it stands for
parse_unicode_escape(src, pos) ==
    IF pos + 4 > Len(src) THEN Err("InvalidSerialization")
    ELSE AndThen(from_str_radix(SubSeq(src, pos + 1, pos + 4)),
         LAMBDA codepoint :
         AndThen(from_u32(codepoint),
         LAMBDA ch :
         Ok(encode_utf8(ch))))

\* the byte a one-letter escape stands for, or -1
simple_escape(c) ==
    IF c = Ch.quote THEN Ch.quote
    ELSE IF c = Ch.backslash THEN Ch.backslash
    ELSE IF c = Ch.slash THEN Ch.slash
    ELSE IF c = Ch.b THEN Ch.backspace
    ELSE IF c = Ch.f THEN Ch.formfeed
    ELSE IF c = Ch.n THEN Ch.lf
    ELSE IF c = Ch.r THEN Ch.cr
    ELSE IF c = Ch.t THEN Ch.tab
    ELSE -1

\* a byte the loop of parse_string pushes as it is
IsPlain(c) == c >= 32 /\ c # Ch.quote /\ c # Ch.backslash

\* the position after the run of plain bytes at pos
plain_end(src, pos) ==
    CHOOSE j \in pos..Len(src) :
        /\ j = Len(src) \/ ~IsPlain(src[j + 1])
        /\ \A k \in (pos + 1)..j : IsPlain(src[k])

RECURSIVE parse_string_loop(_, _, _)
\* the loop of Parser::parse_string, after the opening quote; a run of plain
\* bytes is pushed in one step
parse_string_loop(src, pos, out) ==
    IF pos >= Len(src) THEN Err("InvalidSerialization")
    ELSE IF IsPlain(src[pos + 1])
    THEN parse_string_loop(src, plain_end(src, pos),
                           out \o SubSeq(src, pos + 1, plain_end(src, pos)))
    ELSE IF src[pos + 1] = Ch.quote THEN Ok([value |-> out, pos |-> pos + 1])
    ELSE IF src[pos + 1] = Ch.backslash
    THEN IF simple_escape(peek(src, pos + 1)) >= 0
         THEN parse_string_loop(src, pos + 2,
                                Append(out, simple_escape(peek(src, pos + 1))))
         ELSE IF peek(src, pos + 1) = Ch.u
         THEN AndThen(parse_unicode_escape(src, pos + 2),
              LAMBDA encoded : parse_string_loop(src, pos + 6, out \o encoded))
         ELSE Err("InvalidSerialization")
    ELSE Err("InvalidSerialization")

\* Parser::parse_string
parse_string(src, pos) ==
    AndThen(expect(src, pos, Ch.quote),
            LAMBDA after : parse_string_loop(src, after, << >>))

\* the key checks without the search for the key among the pairs
check_key_last_wins(key, pairs) ==
    IF key = << >> THEN Err("InvalidSerialization")
    ELSE IF ~IsLower(key[1]) THEN Err("InvalidSerialization")
    ELSE IF \E i \in 2..Len(key) :
                ~(IsLower(key[i]) \/ IsDigit(key[i]) \/ key[i] = Ch.underscore)
    THEN Err("InvalidSerialization")
    ELSE Ok(Unit)

\* the key checks of parse_object: not empty, ^[a-z][a-z0-9_]*$, not seen yet
check_key(key, pairs) ==
    IF key = << >> THEN Err("InvalidSerialization")
    ELSE IF ~IsLower(key[1]) THEN Err("InvalidSerialization")
    ELSE IF \E i \in 2..Len(key) :
                ~(IsLower(key[i]) \/ IsDigit(key[i]) \/ key[i] = Ch.underscore)
    THEN Err("InvalidSerialization")
    ELSE IF \E i \in 1..Len(pairs) : pairs[i][1] = key THEN Err("DuplicateKey")
    ELSE Ok(Unit)

\* the loop goes round again, from st
Continue(st) == <<"Continue", st>>

RECURSIVE parse_value(_, _, _)
RECURSIVE parse_object_block(_, _, _, _)
RECURSIVE parse_object_passes(_, _, _, _)
RECURSIVE parse_array_block(_, _, _, _)
RECURSIVE parse_array_passes(_, _, _, _)

\* what follows a parsed pair: a comma and another pass, or the closing brace
parse_object_next(src, pos, pairs) ==
    IF peek(src, pos) = Ch.comma THEN Continue([pos |-> pos + 1, pairs |-> pairs])
    ELSE IF peek(src, pos) = Ch.rbrace
    THEN Ok([value |-> <<"Object", pairs>>, pos |-> pos + 1])
    ELSE Err("InvalidSerialization")

\* one pass of the loop of Parser::parse_object, from st.pos with st.pairs
parse_object_pass(src, depth, st) ==
    IF Len(st.pairs) >= MAX_OBJECT_FIELDS THEN Err("InvalidSerialization")
    ELSE AndThen(parse_string(src, skip_whitespace(src, st.pos)),
         LAMBDA key :
         AndThen(check_key(key.value, st.pairs),
         LAMBDA checked :
         AndThen(expect(src, skip_whitespace(src, key.pos), Ch.colon),
         LAMBDA after_colon :
         AndThen(parse_value(src, skip_whitespace(src, after_colon), depth),
         LAMBDA item :
         parse_object_next(src, skip_whitespace(src, item.pos),
                           Append(st.pairs, <<key.value, item.value>>))))))

\* r when the loop has left with r, and otherwise the result of up to n more
\* passes, by halves
parse_object_block(src, depth, r, n) ==
    IF r[1] # "Continue" THEN r
    ELSE IF n = 1 THEN parse_object_pass(src, depth, r[2])
    ELSE parse_object_block(src, depth,
                            parse_object_block(src, depth, r, n \div 2),
                            n - n \div 2)

\* the passes of the loop from r on, n of them and then twice as many, until
\* the loop is left
parse_object_passes(src, depth, r, n) ==
    IF r[1] # "Continue" THEN r
    ELSE parse_object_passes(src, depth, parse_object_block(src, depth, r, n), 2 * n)

\* the loop of Parser::parse_object, which is left by the pass that finds
\* MAX_OBJECT_FIELDS pairs, if not before
parse_object_loop(src, pos, depth, pairs) ==
    parse_object_passes(src, depth, Continue([pos |-> pos, pairs |-> pairs]), 1)

\* Parser::parse_object, depth being the depth outside the object
parse_object(src, pos, depth) ==
    AndThen(expect(src, pos, Ch.lbrace),
    LAMBDA after :
    IF depth + 1 > MAX_DEPTH THEN Err("InvalidSerialization")
    ELSE IF peek(src, skip_whitespace(src, after)) = Ch.rbrace
    THEN Ok([value |-> <<"Object", << >>>>, pos |-> skip_whitespace(src, after) + 1])
    ELSE parse_object_loop(src, skip_whitespace(src, after), depth + 1, << >>))

\* what follows a parsed item: a comma and another pass, or the closing bracket
parse_array_next(src, pos, items) ==
    IF peek(src, pos) = Ch.comma THEN Continue([pos |-> pos + 1, items |-> items])
    ELSE IF peek(src, pos) = Ch.rbracket
    THEN Ok([value |-> <<"Array", items>>, pos |-> pos + 1])
    ELSE Err("InvalidSerialization")

\* one pass of the loop of Parser::parse_array, from st.pos with st.items
parse_array_pass(src, depth, st) ==
    IF Len(st.items) >= MAX_ARRAY_ITEMS THEN Err("InvalidSerialization")
    ELSE AndThen(parse_value(src, skip_whitespace(src, st.pos), depth),
         LAMBDA item :
         parse_array_next(src, skip_whitespace(src, item.pos),
                          Append(st.items, item.value)))

\* r when the loop has left with r, and otherwise the result of up to n more
\* passes, by halves
parse_array_block(src, depth, r, n) ==
    IF r[1] # "Continue" THEN r
    ELSE IF n = 1 THEN parse_array_pass(src, depth, r[2])
    ELSE parse_array_block(src, depth,
                            parse_array_block(src, depth, r, n \div 2),
                            n - n \div 2)

\* the passes of the loop from r on, n of them and then twice as many, until
\* the loop is left
parse_array_passes(src, depth, r, n) ==
    IF r[1] # "Continue" THEN r
    ELSE parse_array_passes(src, depth, parse_array_block(src, depth, r, n), 2 * n)

\* the loop of Parser::parse_array, which is left by the pass that finds
\* MAX_ARRAY_ITEMS items, if not before
parse_array_loop(src, pos, depth, items) ==
    parse_array_passes(src, depth, Continue([pos |-> pos, items |-> items]), 1)

\* Parser::parse_array, depth being the depth outside the array
parse_array(src, pos, depth) ==
    AndThen(expect(src, pos, Ch.lbracket),
    LAMBDA after :
    IF depth + 1 > MAX_DEPTH THEN Err("InvalidSerialization")
    ELSE IF peek(src, skip_whitespace(src, after)) = Ch.rbracket
    THEN Ok([value |-> <<"Array", << >>>>, pos |-> skip_whitespace(src, after) + 1])
    ELSE parse_array_loop(src, skip_whitespace(src, after), depth + 1, << >>))

\* the literal lit at pos, standing for value
parse_literal(src, pos, lit, value) ==
    IF slice_is(src, pos, lit)
    THEN Ok([value |-> value, pos |-> pos + Len(lit)])
    ELSE Err("InvalidSerialization")

\* the match of Parser::parse_value, at the first byte of the value
parse_value_at(src, pos, depth) ==
    IF peek(src, pos) = Ch.quote
    THEN AndThen(parse_string(src, pos),
                 LAMBDA str : Ok([value |-> <<"Str", str.value>>, pos |-> str.pos]))
    ELSE IF peek(src, pos) = Ch.lbrace THEN parse_object(src, pos, depth)
    ELSE IF peek(src, pos) = Ch.lbracket THEN parse_array(src, pos, depth)
    ELSE IF peek(src, pos) = Ch.t THEN parse_literal(src, pos, Lit.true, <<"Bool", TRUE>>)
    ELSE IF peek(src, pos) = Ch.f THEN parse_literal(src, pos, Lit.false, <<"Bool", FALSE>>)
    ELSE IF peek(src, pos) = Ch.n THEN parse_literal(src, pos, Lit.null, <<"Null">>)
    ELSE Err("InvalidSerialization")

\* Parser::parse_value
parse_value(src, pos, depth) ==
    parse_value_at(src, skip_whitespace(src, pos), depth)

\* every byte of a string passed through, none escaped
emit_byte_raw(b) ==
    <<b>>

\* the canonical escape of one byte of a string
emit_byte(b) ==
    IF b = Ch.quote THEN <<Ch.backslash, Ch.quote>>
    ELSE IF b = Ch.backslash THEN <<Ch.backslash, Ch.backslash>>
    ELSE IF b = Ch.backspace THEN <<Ch.backslash, Ch.b>>
    ELSE IF b = Ch.formfeed THEN <<Ch.backslash, Ch.f>>
    ELSE IF b = Ch.lf THEN <<Ch.backslash, Ch.n>>
    ELSE IF b = Ch.cr THEN <<Ch.backslash, Ch.r>>
    ELSE IF b = Ch.tab THEN <<Ch.backslash, Ch.t>>
    ELSE IF b < 32
    THEN <<Ch.backslash, Ch.u, 48, 48, HEX_LOWER[(b \div 16) + 1], HEX_LOWER[(b % 16) + 1]>>
    ELSE <<b>>

emit_string_content(bytes) ==
    Concat([i \in 1..Len(bytes) |-> emit_byte(bytes[i])], 1, Len(bytes))

emit_string(bytes) ==
    <<Ch.quote>> \o emit_string_content(bytes) \o <<Ch.quote>>

\* the place of pairs[i] in the sorted order: after the pairs with a smaller
\* key, and after the earlier pairs with the same key
sort_rank(pairs, i) ==
    Cardinality({ j \in 1..Len(pairs) :
                     \/ BytesLt(pairs[j][1], pairs[i][1])
                     \/ j <= i /\ pairs[j][1] = pairs[i][1] })

\* the pairs in the order of their ranks
sort_by_rank(pairs, rank) ==
    [r \in 1..Len(pairs) |-> pairs[CHOOSE i \in 1..Len(pairs) : rank[i] = r]]

\* indices.sort_by(|a, b| pairs[a].0.cmp(&pairs[b].0)): a stable sort
sort_by_key(pairs) ==
    sort_by_rank(pairs, [i \in 1..Len(pairs) |-> sort_rank(pairs, i)])

\* the parts joined by commas
join(parts) ==
    Concat([i \in 1..Len(parts) |->
               IF i = 1 THEN parts[i] ELSE <<Ch.comma>> \o parts[i]],
           1, Len(parts))

RECURSIVE emit(_)
emit_pairs(sorted) ==
    join([i \in 1..Len(sorted) |->
             emit_string(sorted[i][1]) \o <<Ch.colon>> \o emit(sorted[i][2])])

emit(value) ==
    IF value[1] = "Null" THEN Lit.null
    ELSE IF value[1] = "Bool" THEN (IF value[2] THEN Lit.true ELSE Lit.false)
    ELSE IF value[1] = "Str" THEN emit_string(value[2])
    ELSE IF value[1] = "Array"
    THEN <<Ch.lbracket>> \o join([i \in 1..Len(value[2]) |-> emit(value[2][i])])
             \o <<Ch.rbracket>>
    ELSE <<Ch.lbrace>> \o emit_pairs(sort_by_key(value[2]))
             \o <<Ch.rbrace>>

\* the rest of canonicalize once the root value is parsed
canonicalize_root(input, root) ==
    IF skip_whitespace(input, root.pos) # Len(input)
    THEN Err("InvalidSerialization")
    ELSE Ok(emit(root.value))

canonicalize(input) ==
    IF Len(input) > MAX_INPUT_BYTES THEN Err("InvalidSerialization")
    ELSE IF Len(input) >= 3 /\ SubSeq(input, 1, 3) = <<239, 187, 191>>
    THEN Err("InvalidSerialization")
    ELSE AndThen(parse_value(input, 0, 0),
                 LAMBDA root : canonicalize_root(input, root))

(***************************************************************************)
(* state/epoch.rs                                                          *)
(***************************************************************************)

EpochState(bond, entropy, epoch, impact, kernel, previous, root, validator, seed) ==
    [bond_pool_root |-> bond, entropy_metric_scaled |-> entropy,
     epoch_number |-> epoch, impact_pool_root |-> impact, kernel_hash |-> kernel,
     previous_root |-> previous, state_root |-> root,
     validator_set_root |-> validator, vdf_challenge_seed |-> seed]

\* a run of ASCII text inside a byte buffer
Text(str) == <<"text", str>>

\* the 64 lowercase hex characters of a digest
encode_digest(d) == <<"hex", d>>

\* the ASCII bytes of the eight key names
KeyBytes ==
    [bond_pool_root |->
        <<98, 111, 110, 100, 95, 112, 111, 111, 108, 95, 114, 111, 111, 116>>,
     entropy_metric_scaled |->
        <<101, 110, 116, 114, 111, 112, 121, 95, 109, 101, 116, 114, 105, 99, 95, 115, 99, 97, 108, 101, 100>>,
     epoch_number |->
        <<101, 112, 111, 99, 104, 95, 110, 117, 109, 98, 101, 114>>,
     impact_pool_root |->
        <<105, 109, 112, 97, 99, 116, 95, 112, 111, 111, 108, 95, 114, 111, 111, 116>>,
     kernel_hash |->
        <<107, 101, 114, 110, 101, 108, 95, 104, 97, 115, 104>>,
     previous_root |->
        <<112, 114, 101, 118, 105, 111, 117, 115, 95, 114, 111, 111, 116>>,
     validator_set_root |->
        <<118, 97, 108, 105, 100, 97, 116, 111, 114, 95, 115, 101, 116, 95, 114, 111, 111, 116>>,
     vdf_challenge_seed |->
        <<118, 100, 102, 95, 99, 104, 97, 108, 108, 101, 110, 103, 101, 95, 115, 101, 101, 100>>]

\* the bytes of one chunk of a buffer.  The hex text of [b; 32] is 32 times
\* the two digits of b; the hex text of a SHA-256 output is 64 characters of
\* 0-9a-f that the model does not know, and a reader that treats the sixteen
\* digits alike sees them as 64 times the digit e
chunk_bytes(chunk) ==
    IF chunk[1] = "bytes" THEN chunk[2]
    ELSE IF chunk[1] = "hex"
    THEN IF chunk[2][1] = "raw"
         THEN [i \in 1..64 |->
                 IF i % 2 = 1 THEN HEX_LOWER[(chunk[2][2] \div 16) + 1]
                 ELSE HEX_LOWER[(chunk[2][2] % 16) + 1]]
         ELSE [i \in 1..64 |-> 101]
    ELSE IF chunk[2] = "{\"" THEN <<Ch.lbrace, Ch.quote>>
    ELSE IF chunk[2] = "\":\"" THEN <<Ch.quote, Ch.colon, Ch.quote>>
    ELSE IF chunk[2] = "\",\"" THEN <<Ch.quote, Ch.comma, Ch.quote>>
    ELSE IF chunk[2] = "\"}" THEN <<Ch.quote, Ch.rbrace>>
    ELSE KeyBytes[chunk[2]]

\* the bytes of a buffer of chunks
buffer_bytes(chunks) ==
    Concat([i \in 1..Len(chunks) |-> chunk_bytes(chunks[i])], 1, Len(chunks))

RECURSIVE encode_u128_digits(_)
\* the decimal digits of v > 0 as ASCII, least significant first
encode_u128_digits(v) ==
    IF v = << >> THEN << >>
    ELSE <<48 + BNModSmall(v, 10)>> \o encode_u128_digits(BNDivSmall(v, 10))

encode_u128(n) ==
    IF n = << >> THEN Bytes(<<48>>) ELSE Bytes(Reverse(encode_u128_digits(n)))

encode_u64(n) ==
    encode_u128(n)

build_commitment_json(s) ==
    << Text("{\""),  Text("bond_pool_root"),        Text("\":\""),
       encode_digest(s.bond_pool_root),
       Text("\",\""), Text("entropy_metric_scaled"), Text("\":\""),
       encode_u128(s.entropy_metric_scaled),
       Text("\",\""), Text("epoch_number"),          Text("\":\""),
       encode_u64(s.epoch_number),
       Text("\",\""), Text("impact_pool_root"),      Text("\":\""),
       encode_digest(s.impact_pool_root),
       Text("\",\""), Text("kernel_hash"),           Text("\":\""),
       encode_digest(s.kernel_hash),
       Text("\",\""), Text("previous_root"),         Text("\":\""),
       encode_digest(s.previous_root),
       Text("\",\""), Text("validator_set_root"),    Text("\":\""),
       encode_digest(s.validator_set_root),
       Text("\",\""), Text("vdf_challenge_seed"),    Text("\":\""),
       encode_digest(s.vdf_challenge_seed),
       Text("\"}") >>

\* the self-check of canonical_bytes on the buffer raw, whose bytes are bytes
canonical_check(raw, bytes) ==
    AndThen(canonicalize(bytes),
            LAMBDA checked :
            IF checked # bytes THEN Err("InvalidSerialization") ELSE Ok(raw))

\* EpochState::canonical_bytes
canonical_bytes(self) ==
    canonical_check(build_commitment_json(self),
                    buffer_bytes(build_commitment_json(self)))

compute_state_root(self) ==
    AndThen(canonical_bytes(self), LAMBDA bytes : Ok(sha256(bytes)))

\* a commit that computes the root and leaves the field as it was
commit_root_not_assigned(self) ==
    AndThen(compute_state_root(self), LAMBDA root : Ok(self))

commit(self) ==
    AndThen(compute_state_root(self),
            LAMBDA root : Ok([self EXCEPT !.state_root = root]))

\* a genesis whose pools are empty trees instead of all-zero roots
genesis_empty_trees ==
    LET s == EpochState(empty_tree_root, << >>, << >>, empty_tree_root, ZERO_DIGEST,
                        ZERO_DIGEST, ZERO_DIGEST, empty_tree_root, ZERO_DIGEST)
    IN  [s EXCEPT !.state_root = unwrap_or(compute_state_root(s), ZERO_DIGEST)]

genesis ==
    LET s == EpochState(ZERO_DIGEST, << >>, << >>, ZERO_DIGEST, ZERO_DIGEST,
                        ZERO_DIGEST, ZERO_DIGEST, ZERO_DIGEST, ZERO_DIGEST)
    IN  [s EXCEPT !.state_root = unwrap_or(compute_state_root(s), ZERO_DIGEST)]

(***************************************************************************)
(* transition.rs                                                           *)
(***************************************************************************)

\* an epoch number that is checked but not advanced
checked_add_1_no_increment(epoch_number) ==
    IF epoch_number = U64_MAX THEN Err("MathOverflow")
    ELSE Ok(epoch_number)

\* u64::checked_add(1).ok_or(MathOverflow)
checked_add_1(epoch_number) ==
    IF epoch_number = U64_MAX THEN Err("MathOverflow")
    ELSE Ok(BNAdd(epoch_number, BN(1)))

\* the dry run with a ceiling that MAX_PAYLOADS_PER_EPOCH itself passes
apply_epoch_dry_run_ceiling_excluded(prev, payload_count, kernel_hash) ==
    IF payload_count >= MAX_PAYLOADS_PER_EPOCH THEN Err("PayloadLimitExceeded")
    ELSE AndThen(checked_add_1(prev.epoch_number),
         LAMBDA new_epoch_number :
         commit(EpochState(prev.bond_pool_root,
                           prev.entropy_metric_scaled,
                           new_epoch_number,
                           prev.impact_pool_root,
                           kernel_hash,
                           prev.state_root,
                           ZERO_DIGEST,
                           prev.validator_set_root,
                           ZERO_DIGEST)))

apply_epoch_dry_run(prev, payload_count, kernel_hash) ==
    IF payload_count > MAX_PAYLOADS_PER_EPOCH THEN Err("PayloadLimitExceeded")
    ELSE AndThen(checked_add_1(prev.epoch_number),
         LAMBDA new_epoch_number :
         commit(EpochState(prev.bond_pool_root,
                           prev.entropy_metric_scaled,
                           new_epoch_number,
                           prev.impact_pool_root,
                           kernel_hash,
                           prev.state_root,
                           ZERO_DIGEST,
                           prev.validator_set_root,
                           ZERO_DIGEST)))

\* steps 9 and 10 of apply_epoch: entropy, assembly, commit
apply_epoch_finish(prev, witness, kernel_hash, new_epoch_number, new_validator_set_root, new_impact_pool_root, new_bond_pool_root) ==
    AndThen(from_raw(witness.entropy_stats.active_bonded_magnitude_raw),
    LAMBDA active_bonded :
    AndThen(from_raw(witness.entropy_stats.total_supply_raw),
    LAMBDA total_supply :
    AndThen(compute_entropy(active_bonded, total_supply,
                            witness.entropy_stats.unique_active_validators,
                            witness.entropy_stats.optimal_validator_count),
    LAMBDA entropy :
    commit(EpochState(new_bond_pool_root,
                      entropy,
                      new_epoch_number,
                      new_impact_pool_root,
                      kernel_hash,
                      prev.state_root,
                      ZERO_DIGEST,
                      new_validator_set_root,
                      ZERO_DIGEST)))))

\* pool steps that hand the impact root and the bond root to each other's field
apply_epoch_pools_swapped(prev, witness, kernel_hash, new_epoch_number) ==
    AndThen(apply_pool_mutations(prev.validator_set_root, witness.validator_witnesses),
    LAMBDA new_validator_set_root :
    AndThen(apply_pool_mutations(prev.impact_pool_root, witness.impact_witnesses),
    LAMBDA new_impact_pool_root :
    AndThen(apply_pool_mutations(prev.bond_pool_root, witness.bond_witnesses),
    LAMBDA new_bond_pool_root :
    apply_epoch_finish(prev, witness, kernel_hash, new_epoch_number,
                       new_validator_set_root, new_bond_pool_root,
                       new_impact_pool_root))))

\* steps 6 to 8 of apply_epoch: the three pools, then the rest
apply_epoch_pools(prev, witness, kernel_hash, new_epoch_number) ==
    AndThen(apply_pool_mutations(prev.validator_set_root, witness.validator_witnesses),
    LAMBDA new_validator_set_root :
    AndThen(apply_pool_mutations(prev.impact_pool_root, witness.impact_witnesses),
    LAMBDA new_impact_pool_root :
    AndThen(apply_pool_mutations(prev.bond_pool_root, witness.bond_witnesses),
    LAMBDA new_bond_pool_root :
    apply_epoch_finish(prev, witness, kernel_hash, new_epoch_number,
                       new_validator_set_root, new_impact_pool_root,
                       new_bond_pool_root))))

apply_epoch(prev, witness, kernel_hash) ==
    AndThen(validate_limits(witness),
    LAMBDA within_limits :
    AndThen(EntropyStats_validate(witness.entropy_stats),
    LAMBDA valid_stats :
    AndThen(checked_add_1(prev.epoch_number),
    LAMBDA new_epoch_number :
    AndThen(verify_quorum(witness.validator_signatures,
                          compute_epoch_signing_root(prev.state_root,
                                                     compute_bundle_hash(witness),
                                                     new_epoch_number,
                                                     kernel_hash),
                          witness.entropy_stats.optimal_validator_count),
    LAMBDA quorum :
    apply_epoch_pools(prev, witness, kernel_hash, new_epoch_number)))))

(***************************************************************************)
(* Bounds of the model                                                     *)
(***************************************************************************)

\* successful transitions applied on top of a starting state
MaxChain == 2

\* validator key pairs (the longest signature list)
NKeys == 4

\* mutations in one pool sequence of the pure apply_pool_mutations calls
MaxMutations == 2

(***************************************************************************)
(* Inputs: leaf values, keys, trees, mutations                             *)
(***************************************************************************)

V_a == <<97>>

V_b == <<98>>

V_a2 == <<97, 50>>

V_b2 == <<98, 50>>

V_wrong == <<87>>

K_a == <<97>>

K_ab == <<97, 98>>

K_b == <<98>>

\* the single-leaf tree over "a" and the two-leaf tree over "a", "b"
R1 == hash_leaf(V_a)

R2 == hash_node(hash_leaf(V_a), hash_leaf(V_b))

\* a -> a2 on the left leaf of R2
mA == LeafMutation(K_a, V_a, V_a2, <<MerklePathNode(hash_leaf(V_b), "Left")>>)

\* b -> b2 on the right leaf, path drawn after mA (Model A)
mB_fresh == LeafMutation(K_b, V_b, V_b2, <<MerklePathNode(hash_leaf(V_a2), "Right")>>)

\* b -> b2 on the right leaf, path drawn against R2 itself (Model B)
mB_stale == LeafMutation(K_b, V_b, V_b2, <<MerklePathNode(hash_leaf(V_a), "Right")>>)

\* a -> a2 with a corrupted sibling
mA_bad == LeafMutation(K_a, V_a, V_a2, <<MerklePathNode(hash_leaf(V_wrong), "Left")>>)

\* a -> a2 on the single leaf of R1 (empty path)
m1 == LeafMutation(K_a, V_a, V_a2, << >>)

\* one mutation more than MAX_PAYLOADS_PER_EPOCH
Oversized == [i \in 1..(MAX_PAYLOADS_PER_EPOCH + 1) |-> m1]

Pools(v, i, b) == [validator |-> v, impact |-> i, bond |-> b]

PoolCases ==
    { Pools(v, i, b) :
        v \in { << >>, <<mA>>, <<mA, mB_fresh>>, <<mA, mB_stale>>, <<mA_bad>>,
                <<mB_stale, mA>> },
        i \in { << >>, <<m1>>, <<m1, m1>> },
        b \in { << >>, <<mA>> } }

NoPools == Pools(<< >>, << >>, << >>)

\* a key of MAX_KEY_BYTES + 1 bytes and a value of MAX_VALUE_BYTES + 1 bytes
K_long == [i \in 1..(MAX_KEY_BYTES + 1) |-> 97]

V_long == [i \in 1..(MAX_VALUE_BYTES + 1) |-> 97]

\* a -> a2 on the single leaf of R1 under an empty key, under an oversized
\* key, and a -> an oversized value
m_empty_key == LeafMutation(<< >>, V_a, V_a2, << >>)

m_long_key == LeafMutation(K_long, V_a, V_a2, << >>)

m_long_value == LeafMutation(K_a, V_a, V_long, << >>)

\* a key and a new value of exactly the largest size
m_largest ==
    LeafMutation(SubSeq(K_long, 1, MAX_KEY_BYTES), V_a,
                 SubSeq(V_long, 1, MAX_VALUE_BYTES), << >>)

SizeCases ==
    { Pools(<< >>, <<m>>, << >>) :
        m \in { m_empty_key, m_long_key, m_long_value, m_largest } }

OversizedPools == Pools(<< >>, Oversized, << >>)

(***************************************************************************)
(* Inputs: entropy statistics                                              *)
(***************************************************************************)

\* 2^63 - 1 = 9223372036854775807: 2 * n + 2 = 2^64
HALF_U64 ==
    Limbs(<<922, 3372, 368, 5477, 5807>>)

S3 == EntropyStats(<< >>, BN(1000), BN(1), BN(3))

S4 == EntropyStats(<< >>, BN(1000), BN(1), BN(4))

S_half == EntropyStats(Limbs(<<5000, 0, 0>>), SCALE, BN(2), BN(3))

S_bonded_gt_supply == EntropyStats(Limbs(<<2, 0, 0, 0>>), SCALE, BN(5), BN(10))

S_optimal_zero == EntropyStats(<< >>, BN(1000), BN(1), << >>)

S_supply_zero == EntropyStats(<< >>, << >>, BN(1), BN(1))

S_optimal_huge == EntropyStats(<< >>, BN(1000), BN(1), HALF_U64)

\* everything bonded, twice as many validators as the optimal count
S_crowded == EntropyStats(SCALE, SCALE, BN(6), BN(3))

AllStats ==
    { S3, S4, S_half, S_bonded_gt_supply, S_optimal_zero, S_supply_zero,
      S_optimal_huge, S_crowded }

(***************************************************************************)
(* Inputs: fixed-point values, counts and numeric strings                  *)
(***************************************************************************)

\* 0.5
HALF == Limbs(<<5000, 0, 0>>)

\* raw u128 values on both sides of the Fixed bound
RawInputs ==
    { << >>, BN(1), HALF, SCALE, BNMulSmall(SCALE, 2), MAX_SAFE_BALANCE_RAW,
      BNAdd(MAX_SAFE_BALANCE_RAW, BN(1)), U128_MAX }

\* the Fixed values that from_raw hands out for them
FixedValues ==
    { r[2] : r \in { x \in { from_raw(raw) : raw \in RawInputs } : IsOk(x) } }

\* u64 counts
CountInputs ==
    { << >>, BN(1), BN(3), BN(5), BN(6), BN(10), U64_MAX }

\* the decimal text of n
Decimal(n) == encode_u128(n)[2]

\* strings in and out of the grammar 0|[1-9][0-9]*: empty, 007, 1a, +5, and
\* the decimal text of raw values up to u128::MAX + 1
StringInputs ==
    { << >>, <<48, 48, 55>>, <<49, 97>>, <<43, 53>> }
        \cup { Decimal(raw) : raw \in RawInputs \cup { BNAdd(U128_MAX, BN(1)) } }

(***************************************************************************)
(* Inputs: leaf lists                                                      *)
(***************************************************************************)

MaxLeaves == 5

\* the empty leaf and two one-byte leaves
LeafInputs == { << >>, <<97>>, <<98>> }

\* every list of up to MaxLeaves of them, in every order
LeafLists ==
    UNION { [1..n -> LeafInputs] : n \in 0..MaxLeaves }

(***************************************************************************)
(* Inputs: Merkle paths of every length around the limit                   *)
(***************************************************************************)

\* n levels, the same sibling on the same side at each
PathOf(n, sibling, position) ==
    [i \in 1..n |-> MerklePathNode(sibling, position)]

PathLengths ==
    { 0, 1, MAX_MERKLE_DEPTH - 1, MAX_MERKLE_DEPTH, MAX_MERKLE_DEPTH + 1,
      MAX_MERKLE_DEPTH + 2 }

\* the node lists a caller may hand to MerklePath::new, or put into a
\* MerklePath { nodes } of its own
NodeLists ==
    { PathOf(n, sibling, position) :
        n \in PathLengths, sibling \in { hash_leaf(V_a), hash_leaf(V_b) },
        position \in { "Left", "Right" } }

\* one mutation a -> a2 under each path, with the root its path leads to from
\* the old leaf, or a root it does not lead to
PathMutations ==
    { LeafMutation(K_a, V_a, V_a2, nodes) : nodes \in NodeLists }

(***************************************************************************)
(* Inputs: JSON texts                                                      *)
(***************************************************************************)

\* a string token: the body between two quotes
Quoted(body) == <<Ch.quote>> \o body \o <<Ch.quote>>

\* \uXXXX with the four given bytes
UEscape(hex) == <<Ch.backslash, Ch.u>> \o hex

\* string bodies: empty, a, b, a as \u0061, \n, \u000a, \u0001, \/, \", \\,
\* e-acute as two bytes and as \u00e9 and \u00E9, the euro sign as \u20ac,
\* \u+041, DEL as a byte and as \u007f
GoodBodies ==
    { << >>, <<97>>, <<98>>, UEscape(<<48, 48, 54, 49>>),
      <<Ch.backslash, Ch.n>>, UEscape(<<48, 48, 48, 97>>),
      UEscape(<<48, 48, 48, 49>>), <<Ch.backslash, Ch.slash>>,
      <<Ch.backslash, Ch.quote>>, <<Ch.backslash, Ch.backslash>>,
      <<195, 169>>, UEscape(<<48, 48, 101, 57>>), UEscape(<<48, 48, 69, 57>>),
      UEscape(<<50, 48, 97, 99>>), UEscape(<<Ch.plus, 48, 52, 49>>),
      <<127>>, UEscape(<<48, 48, 55, 102>>),
      <<97, Ch.backslash, Ch.t, 98>> }

\* bodies that are refused: a lone surrogate, \x, a raw control byte, a
\* short \u escape
BadBodies ==
    { UEscape(<<100, 56, 51, 100>>), <<Ch.backslash, 120>>, <<1>>,
      UEscape(<<52, 49>>) }

\* key bodies: a, b, b as \u0062, a_1, and the refused A and empty key
KeyBodies ==
    { <<97>>, <<98>>, UEscape(<<48, 48, 54, 50>>), <<97, Ch.underscore, 49>>,
      <<65>>, << >> }

\* whitespace between tokens
Gaps == { << >>, <<Ch.space>>, <<Ch.lf, Ch.tab>> }

\* scalars: strings, the three literals, and a number, which is refused
Scalars ==
    { Quoted(body) : body \in GoodBodies \cup BadBodies }
        \cup { Lit.true, Lit.false, Lit.null, <<49>> }

\* a few values to put inside arrays and objects
Items ==
    { Quoted(<<98>>), Quoted(UEscape(<<48, 48, 54, 49>>)),
      Quoted(<<Ch.backslash, Ch.slash>>), Lit.null, Lit.true }

\* [ ], [x], [x, y], with one kind of gap around every token
Arrays ==
    { <<Ch.lbracket>> \o g \o <<Ch.rbracket>> : g \in Gaps }
    \cup { <<Ch.lbracket>> \o g \o x \o g \o <<Ch.rbracket>> :
              g \in Gaps, x \in Items }
    \cup { <<Ch.lbracket>> \o x \o g \o <<Ch.comma>> \o g \o y \o <<Ch.rbracket>> :
              g \in Gaps, x \in Items, y \in Items }

\* "key" : value
Member(key, g, value) ==
    Quoted(key) \o g \o <<Ch.colon>> \o g \o value

\* { }, {k: v}, {k1: v1, k2: v2}: keys in either order, the same key twice
Objects ==
    { <<Ch.lbrace>> \o g \o <<Ch.rbrace>> : g \in Gaps }
    \cup { <<Ch.lbrace>> \o g \o Member(k, g, v) \o g \o <<Ch.rbrace>> :
              g \in Gaps, k \in KeyBodies, v \in Items }
    \cup { <<Ch.lbrace>> \o Member(k1, g, v1) \o <<Ch.comma>> \o g
                \o Member(k2, << >>, v2) \o <<Ch.rbrace>> :
              g \in { << >>, <<Ch.space>> }, k1 \in KeyBodies, k2 \in KeyBodies,
              v1 \in { Quoted(<<98>>), Lit.null }, v2 \in { Quoted(<<97>>), Lit.true } }

\* arrays and objects inside arrays and objects
Inner ==
    { <<Ch.lbracket, Ch.space, Ch.rbracket>>,
      <<Ch.lbracket>> \o Lit.null \o <<Ch.comma, Ch.space>> \o Quoted(<<97>>)
          \o <<Ch.rbracket>>,
      <<Ch.lbrace>> \o Member(<<98>>, <<Ch.space>>, Lit.true) \o <<Ch.comma>>
          \o Member(<<97>>, << >>, Quoted(<<Ch.backslash, Ch.slash>>))
          \o <<Ch.rbrace>> }

Nested ==
    { <<Ch.lbracket>> \o x \o <<Ch.comma>> \o g \o y \o <<Ch.rbracket>> :
          g \in { << >>, <<Ch.lf>> }, x \in Inner, y \in Inner \cup { Lit.false } }
    \cup { <<Ch.lbrace>> \o Member(k1, g, x) \o <<Ch.comma>>
                \o Member(k2, g, y) \o <<Ch.rbrace>> :
              g \in { << >>, <<Ch.space>> }, k1 \in { <<98>>, <<99>> },
              k2 \in { <<97>>, <<98, 97>> }, x \in Inner, y \in Inner }

\* texts with something before or after the root value: whitespace, a byte
\* order mark, a second value
Framed ==
    { g \o x \o h : g \in Gaps, h \in Gaps,
                     x \in { Quoted(<<97>>), Lit.null, <<Ch.lbrace, Ch.rbrace>> } }
    \cup { <<239, 187, 191>> \o Lit.null, Lit.null \o <<Ch.space>> \o Lit.null,
           << >>, <<Ch.space>> }

\* pairs of key bodies that stand for one key: a and a, b and b in either
\* order, a_1 and a_1, ab and ab
EqualKeys ==
    { <<<<97>>, <<97>>>>,
      <<<<98>>, UEscape(<<48, 48, 54, 50>>)>>,
      <<UEscape(<<48, 48, 54, 50>>), <<98>>>>,
      <<<<97, Ch.underscore, 49>>, <<97>> \o UEscape(<<48, 48, 53, 102>>) \o <<49>>>>,
      <<<<97, 98>>, UEscape(<<48, 48, 54, 49>>) \o UEscape(<<48, 48, 54, 50>>)>> }

\* objects with the members k1 and k2: next to each other, around a third
\* member, after one, and with values that are objects themselves
TwoMembers(k1, k2) ==
    { <<Ch.lbrace>> \o Member(k1, << >>, Lit.true) \o <<Ch.comma>>
          \o Member(k2, << >>, Lit.false) \o <<Ch.rbrace>>,
      <<Ch.lbrace>> \o Member(k1, <<Ch.space>>, Quoted(<<98>>)) \o <<Ch.comma>>
          \o Member(<<99>>, << >>, Lit.null) \o <<Ch.comma, Ch.space>>
          \o Member(k2, << >>, Quoted(<<97>>)) \o <<Ch.rbrace>>,
      <<Ch.lbrace>> \o Member(<<99>>, << >>, <<Ch.lbracket, Ch.rbracket>>)
          \o <<Ch.comma>> \o Member(k1, << >>, <<Ch.lbrace, Ch.rbrace>>)
          \o <<Ch.comma>>
          \o Member(k2, << >>, <<Ch.lbrace>> \o Member(k1, << >>, Lit.null)
                                   \o <<Ch.rbrace>>)
          \o <<Ch.rbrace>> }

\* x at the root, and one, two and four levels down
Within(x) ==
    { x,
      <<Ch.lbracket>> \o x \o <<Ch.rbracket>>,
      <<Ch.lbracket>> \o Lit.null \o <<Ch.comma, Ch.space>> \o x \o <<Ch.rbracket>>,
      <<Ch.lbrace>> \o Member(<<97>>, << >>, x) \o <<Ch.rbrace>>,
      <<Ch.lbrace>> \o Member(<<97>>, << >>, Lit.true) \o <<Ch.comma>>
          \o Member(<<98>>, <<Ch.space>>, <<Ch.lbracket>> \o x \o <<Ch.rbracket>>)
          \o <<Ch.rbrace>>,
      <<Ch.lbracket, Ch.lbracket, Ch.lbrace>>
          \o Member(<<97>>, << >>, <<Ch.lbracket>> \o x \o <<Ch.rbracket>>)
          \o <<Ch.rbrace, Ch.rbracket, Ch.rbracket>> }

\* texts in which one object, at some depth, has two members with one key,
\* and nothing else is wrong
DuplicateTexts ==
    UNION { Within(x) : x \in UNION { TwoMembers(k[1], k[2]) : k \in EqualKeys } }

\* the same texts with the key z in the place of the second of the two keys
UnduplicatedTexts ==
    UNION { Within(x) : x \in UNION { TwoMembers(k[1], <<122>>) : k \in EqualKeys } }

\* n arrays, one inside the other
Deep(n) ==
    [i \in 1..n |-> Ch.lbracket] \o [i \in 1..n |-> Ch.rbracket]

\* n objects, one inside the other as the value of the key a
DeepObjects(n) ==
    Concat([i \in 1..n |-> <<Ch.lbrace>> \o Quoted(<<97>>) \o <<Ch.colon>>], 1, n)
        \o Lit.null \o [i \in 1..n |-> Ch.rbrace]

\* values of one to four levels, and the depths of a parser that has 28 to 32
\* arrays and objects open around the value it parses
MaxLevels == 4

DeepValues ==
    [levels : 1..MaxLevels, kind : { "arrays", "objects" }]

DeepText(v) ==
    IF v.kind = "arrays" THEN Deep(v.levels) ELSE DeepObjects(v.levels)

OuterDepths == (MAX_DEPTH - MaxLevels)..MAX_DEPTH

\* an array of n nulls
Wide(n) ==
    <<Ch.lbracket>>
        \o Concat([i \in 1..n |-> IF i = 1 THEN Lit.null
                                  ELSE <<Ch.comma>> \o Lit.null], 1, n)
        \o <<Ch.rbracket>>

\* the i-th of the keys aa, ab, ..., with the value null
Field(i) ==
    Member(<<97 + (i \div 26), 97 + (i % 26)>>, << >>, Lit.null)

\* an object of n members with n keys
Fields(n) ==
    <<Ch.lbrace>>
        \o Concat([i \in 1..n |-> IF i = 1 THEN Field(i)
                                  ELSE <<Ch.comma>> \o Field(i)], 1, n)
        \o <<Ch.rbrace>>

\* texts at a limit: 64 members, 1024 items, 65536 bytes
LimitTexts ==
    { Fields(MAX_OBJECT_FIELDS), Wide(MAX_ARRAY_ITEMS),
      Quoted([i \in 1..(MAX_INPUT_BYTES - 2) |-> 97]) }

\* texts that break one rule and have no key twice.  Number literals; keys
\* that are not ^[a-z][a-z0-9_]*$; raw control bytes in a string or a key; a
\* byte order mark; bytes after the root value; a limit passed by one
ViolationTexts ==
    { <<49>>, <<Ch.minus, 49>>, <<48, 46, 53>>,
      <<Ch.lbracket, 49, Ch.rbracket>>,
      <<Ch.lbrace>> \o Member(<<97>>, << >>, <<49>>) \o <<Ch.rbrace>> }
    \cup { <<Ch.lbrace>> \o Member(k, << >>, Lit.null) \o <<Ch.rbrace>> :
              k \in { <<65>>, <<49, 97>>, <<Ch.underscore, 97>>,
                      <<97, Ch.minus, 98>>, <<97, 66>>, << >>, <<195, 169>>,
                      <<97, Ch.space>> } }
    \cup { Quoted(<<1>>), Quoted(<<97, Ch.lf, 98>>), Quoted(<<31>>),
           <<Ch.lbrace>> \o Member(<<97, Ch.tab>>, << >>, Lit.null) \o <<Ch.rbrace>> }
    \cup { <<239, 187, 191>> \o Lit.null,
           <<239, 187, 191, Ch.lbrace, Ch.rbrace>> }
    \cup { Lit.null \o <<Ch.space>> \o Lit.null,
           <<Ch.lbrace, Ch.rbrace, 120>>,
           <<Ch.lbracket, Ch.rbracket, Ch.comma>>,
           Quoted(<<97>>) \o Quoted(<<98>>),
           <<Ch.lbrace, Ch.rbrace, Ch.rbrace>> }
    \cup { Fields(MAX_OBJECT_FIELDS + 1), Wide(MAX_ARRAY_ITEMS + 1),
           Quoted([i \in 1..(MAX_INPUT_BYTES - 1) |-> 97]) }

JsonTexts ==
    Scalars \cup Arrays \cup Objects \cup Nested \cup Framed
        \cup DuplicateTexts \cup UnduplicatedTexts \cup LimitTexts
        \cup ViolationTexts

(***************************************************************************)
(* Inputs: kernel hashes, validator keys, signature lists                  *)
(***************************************************************************)

KernelHashes == { ZERO_DIGEST, RawDigest(255) }

\* the 32-byte public key of validator n; byte order agrees with n
Pubkey(n) == <<n \div 2, n % 2>>

\* signature lists by signer: the prefixes 1..n, a duplicate, a reversed pair
PrefixKeyLists ==
    { [i \in 1..n |-> i] : n \in 0..NKeys } \cup { <<1, 1>>, <<2, 1>> }

\* what the validators signed: the call's own context or one that differs from
\* it in the kernel hash, the epoch number, the previous root or the bundle
Contexts == { "ok", "kernel", "epoch", "prev", "bundle", "pool", "value" }

\* the bundle content the validators signed: the call's, or the call's before
\* its impact mutations were appended, or with the impact mutations in the
\* bond pool, or with another new_value in the validator mutations
SignedPools(pools, ctx) ==
    CASE ctx = "bundle" -> [pools EXCEPT !.impact = << >>]
      [] ctx = "pool" -> [pools EXCEPT !.impact = pools.bond, !.bond = pools.impact]
      [] ctx = "value" ->
            [pools EXCEPT !.validator =
                [i \in 1..Len(pools.validator) |->
                    [pools.validator[i] EXCEPT !.new_value = V_wrong]]]
      [] OTHER -> pools

SignedRoot(prev, pools, k, ctx) ==
    LET signed_pools == SignedPools(pools, ctx)
        bundle == StateWitnessBundle(signed_pools.bond, S3, signed_pools.impact,
                                     << >>, signed_pools.validator)
    IN  compute_epoch_signing_root(
            IF ctx = "prev" THEN prev.previous_root ELSE prev.state_root,
            compute_bundle_hash(bundle),
            BNAdd(prev.epoch_number, IF ctx = "epoch" THEN BN(2) ELSE BN(1)),
            IF ctx = "kernel" THEN CHOOSE h \in KernelHashes : h # k ELSE k)

Signatures(keys, root) ==
    [i \in 1..Len(keys) |->
        ValidatorSignature(Pubkey(keys[i]), Sign(Pubkey(keys[i]), root))]

MakeWitness(prev, k, pools, stats, keys, ctx) ==
    StateWitnessBundle(pools.bond, stats, pools.impact,
                       IF keys = << >> THEN << >>
                       ELSE Signatures(keys, SignedRoot(prev, pools, k, ctx)),
                       pools.validator)

\* the witness bundles offered to apply_epoch: every signature list over a
\* few bundles, every pool combination and every statistics record with a
\* full or an absent signature list
InputCases ==
    ({ NoPools, Pools(<<mA>>, <<m1>>, << >>) } \X { S3, S4, S_optimal_huge }
        \X PrefixKeyLists \X Contexts)
    \cup (PoolCases \X { S3, S_half } \X { << >>, <<1, 2>> } \X { "ok" })
    \cup ({ NoPools, Pools(<<mA_bad>>, << >>, << >>) } \X AllStats
        \X { << >>, <<1, 2>> } \X { "ok" })
    \cup ({ OversizedPools } \X AllStats \X { << >> } \X { "ok" })
    \cup (SizeCases \X { S3 } \X { << >>, <<1, 2>> } \X { "ok" })

Witnesses(prev, k) ==
    { MakeWitness(prev, k, c[1], c[2], c[3], c[4]) : c \in InputCases }

\* the bundles offered along a chain of transitions
ChainCases ==
    { NoPools, Pools(<<mA>>, <<m1>>, << >>), Pools(<<mA, mB_fresh>>, << >>, <<mA>>) }
        \X { S3, S_half } \X { << >>, <<1, 2>> } \X { "ok" }

ChainWitnesses(prev, k) ==
    { MakeWitness(prev, k, c[1], c[2], c[3], c[4]) : c \in ChainCases }

RECURSIVE AscendingList(_)
AscendingList(S) ==
    IF S = {} THEN << >>
    ELSE LET least == CHOOSE x \in S : \A y \in S : x <= y
         IN  <<least>> \o AscendingList(S \ {least})

\* signer lists for verify_quorum: every ascending list and every list of up
\* to three signers in any order
QuorumKeyLists ==
    { AscendingList(S) : S \in SUBSET (1..NKeys) }
    \cup UNION { [1..n -> 1..NKeys] : n \in 0..3 }

\* the signatures of the signers over root, the one at position bad (if any)
\* made over another message
QuorumSignatures(keys, root, bad) ==
    [i \in 1..Len(keys) |->
        ValidatorSignature(Pubkey(keys[i]),
                           Sign(Pubkey(keys[i]),
                                IF i = bad THEN ZERO_DIGEST ELSE root))]

QuorumSignatureLists(root) ==
    { QuorumSignatures(keys[1], root, keys[2]) :
        keys \in { <<l, b>> \in QuorumKeyLists \X (0..NKeys) : b <= Len(l) } }

QuorumOptimals ==
    { BN(n) : n \in 0..(NKeys + 2) } \cup { HALF_U64, U64_MAX }

\* inputs of apply_pool_mutations called on its own
PoolChanges == { <<V_a, V_a2>>, <<V_b, V_b2>>, <<V_a, V_a>>, <<V_a2, V_b2>> }

PoolPaths ==
    { << >>,
      <<MerklePathNode(hash_leaf(V_b), "Left")>>,
      <<MerklePathNode(hash_leaf(V_a), "Right")>>,
      <<MerklePathNode(hash_leaf(V_a2), "Right")>>,
      <<MerklePathNode(hash_leaf(V_wrong), "Left")>> }

PoolMutations ==
    { LeafMutation(k, c[1], c[2], p) :
        k \in { K_a, K_ab, K_b }, c \in PoolChanges, p \in PoolPaths }

PoolSequences == UNION { [1..n -> PoolMutations] : n \in 0..MaxMutations }

PoolRoots == { R2, R1, ZERO_DIGEST }

PayloadCounts == { 0, MAX_PAYLOADS_PER_EPOCH, MAX_PAYLOADS_PER_EPOCH + 1 }

\* the states a caller starts from: genesis, or a state it assembled and
\* committed itself (pool roots over known trees, any epoch number)
HostState(validator, impact, bond, epoch) ==
    commit(EpochState(bond, << >>, epoch, impact, ZERO_DIGEST, ZERO_DIGEST,
                      ZERO_DIGEST, validator, ZERO_DIGEST))[2]

StartStates ==
    { genesis,
      HostState(R2, R1, R2, BN(5)),
      HostState(R2, R1, ZERO_DIGEST, << >>),
      HostState(ZERO_DIGEST, ZERO_DIGEST, ZERO_DIGEST, U64_MAX) }

(***************************************************************************)
(* The caller: a chain of committed states advanced by the two transitions *)
(***************************************************************************)

Tip == chain[Len(chain)]

NoCall == [op |-> "none"]

NoResult == <<"None", Unit>>

Init ==
    /\ overflow_checks \in BOOLEAN
    /\ \E s \in StartStates : chain = <<s>>
    /\ call = NoCall
    /\ result = NoResult

\* A rejected call leaves the chain as it was, so the calls that may follow it
\* are the calls that could have been made in its place: they are explored
\* from there.  A panic ends the process.
CanCall ==
    /\ Len(chain) <= MaxChain
    /\ (result = NoResult \/ IsOk(result))

ApplyEpoch(w, k) ==
    /\ CanCall
    /\ \E r \in { apply_epoch(Tip, w, k) } :
          /\ result' = r
          /\ chain' = IF IsOk(r) THEN Append(chain, r[2]) ELSE chain
    /\ call' = [op |-> "apply_epoch", prev |-> Tip, witness |-> w,
                kernel_hash |-> k]
    /\ UNCHANGED overflow_checks

ApplyEpochDryRun(n, k) ==
    /\ CanCall
    /\ \E r \in { apply_epoch_dry_run(Tip, n, k) } :
          /\ result' = r
          /\ chain' = IF IsOk(r) THEN Append(chain, r[2]) ELSE chain
    /\ call' = [op |-> "apply_epoch_dry_run", prev |-> Tip, payload_count |-> n,
                kernel_hash |-> k]
    /\ UNCHANGED overflow_checks

VerifyQuorum(signatures, signing_root, optimal_validator_count) ==
    /\ CanCall
    /\ result' = verify_quorum(signatures, signing_root, optimal_validator_count)
    /\ call' = [op |-> "verify_quorum", signatures |-> signatures,
                signing_root |-> signing_root,
                optimal_validator_count |-> optimal_validator_count]
    /\ UNCHANGED <<overflow_checks, chain>>

\* chains of transitions, each call drawn from a few bundles
Next ==
    \/ \E k \in KernelHashes : \E w \in ChainWitnesses(Tip, k) : ApplyEpoch(w, k)
    \/ \E k \in KernelHashes, n \in PayloadCounts : ApplyEpochDryRun(n, k)

Spec == Init /\ [][Next]_vars

\* one call on a starting state, drawn from every bundle
NextCall ==
    \/ /\ call = NoCall
       /\ \E k \in KernelHashes : \E w \in Witnesses(Tip, k) : ApplyEpoch(w, k)
    \/ /\ call = NoCall
       /\ \E k \in KernelHashes, n \in PayloadCounts : ApplyEpochDryRun(n, k)
    \/ /\ call = NoCall
       /\ \E k \in KernelHashes, n \in QuorumOptimals :
             \E root \in { SignedRoot(Tip, NoPools, k, "ok") } :
                 \E sigs \in QuorumSignatureLists(root) : VerifyQuorum(sigs, root, n)

SpecCall == Init /\ [][NextCall]_vars

\* the bundles of a chain, and two with an optimal validator count of 2^63 - 1
ReplayWitnesses(prev, k) ==
    ChainWitnesses(prev, k)
        \cup { MakeWitness(prev, k, NoPools, S_optimal_huge, keys, "ok") :
                  keys \in { << >>, <<1, 2>> } }

\* the last call of a chain is given to a second replay, which runs a build
\* of the same source, with or without overflow checks
SecondReplay ==
    /\ call.op \in { "apply_epoch", "apply_epoch_dry_run" }
    /\ overflow_checks' \in BOOLEAN
    /\ call' = [op |-> "replay", first |-> call, returned |-> result,
                build |-> overflow_checks]
    /\ result' = NoResult
    /\ UNCHANGED chain

\* the second replay makes the call, with the arguments of the first
Replay ==
    /\ call.op = "replay"
    /\ result' = IF call.first.op = "apply_epoch"
                 THEN apply_epoch(call.first.prev, call.first.witness,
                                  call.first.kernel_hash)
                 ELSE apply_epoch_dry_run(call.first.prev, call.first.payload_count,
                                          call.first.kernel_hash)
    /\ call' = [call EXCEPT !.op = "replayed"]
    /\ UNCHANGED <<overflow_checks, chain>>

NextReplay ==
    \/ /\ call.op \notin { "replay", "replayed" }
       /\ \E k \in KernelHashes : \E w \in ReplayWitnesses(Tip, k) : ApplyEpoch(w, k)
    \/ /\ call.op \notin { "replay", "replayed" }
       /\ \E k \in KernelHashes, n \in PayloadCounts : ApplyEpochDryRun(n, k)
    \/ SecondReplay
    \/ Replay

SpecReplay == Init /\ [][NextReplay]_vars

\* an insert into an empty pool: no old value, no siblings
mInsert == LeafMutation(K_a, << >>, V_a, << >>)

\* mutations offered against the pools of a chain that starts at genesis
GenesisMutations ==
    { LeafMutation(k, c[1], c[2], p) :
        k \in { K_a, K_b },
        c \in { <<(<< >>), V_a>>, <<V_a, V_a2>> },
        p \in { << >>,
                <<MerklePathNode(hash_leaf(V_b), "Left")>>,
                <<MerklePathNode(ZERO_DIGEST, "Right")>> } }

GenesisSequences == UNION { [1..n -> GenesisMutations] : n \in 0..MaxMutations }

GenesisCases ==
    { NoPools, Pools(<<mInsert>>, << >>, << >>), Pools(<< >>, <<mInsert>>, << >>),
      Pools(<< >>, << >>, <<mInsert>>), Pools(<<mA>>, <<m1>>, << >>),
      Pools(<<mA, mB_fresh>>, << >>, <<mA>>) }
        \X { S3, S_half } \X { << >>, <<1, 2>> } \X { "ok" }

GenesisWitnesses(prev, k) ==
    { MakeWitness(prev, k, c[1], c[2], c[3], c[4]) : c \in GenesisCases }

InitGenesis ==
    /\ overflow_checks \in BOOLEAN
    /\ chain = <<genesis>>
    /\ call = NoCall
    /\ result = NoResult

\* apply_pool_mutations called on a pool root of the latest state
ApplyPoolMutationsAt(current_root, mutations) ==
    /\ CanCall
    /\ result' = apply_pool_mutations(current_root, mutations)
    /\ call' = [op |-> "apply_pool_mutations", current_root |-> current_root,
                mutations |-> mutations]
    /\ UNCHANGED <<overflow_checks, chain>>

\* the chains that start at genesis
NextGenesis ==
    \/ \E k \in KernelHashes : \E w \in GenesisWitnesses(Tip, k) : ApplyEpoch(w, k)
    \/ \E k \in KernelHashes, n \in PayloadCounts : ApplyEpochDryRun(n, k)
    \/ \E root \in { Tip.validator_set_root, Tip.impact_pool_root,
                      Tip.bond_pool_root } :
          \E ms \in GenesisSequences : ApplyPoolMutationsAt(root, ms)

SpecGenesis == InitGenesis /\ [][NextGenesis]_vars

\* apply_pool_mutations called on its own: the inputs are drawn at the start
InitPool ==
    /\ overflow_checks \in BOOLEAN
    /\ chain = << >>
    /\ \E r \in PoolRoots, ms \in PoolSequences :
          call = [op |-> "apply_pool_mutations", current_root |-> r,
                  mutations |-> ms]
    /\ result = NoResult

ApplyPoolMutations ==
    /\ call.op = "apply_pool_mutations"
    /\ result = NoResult
    /\ result' = apply_pool_mutations(call.current_root, call.mutations)
    /\ UNCHANGED <<overflow_checks, chain, call>>

SpecPool == InitPool /\ [][ApplyPoolMutations]_vars

\* what a function that cannot fail returned
Value(v) == <<"Value", v>>

\* the fixed-point functions, each called on its own
InitMath ==
    /\ overflow_checks \in BOOLEAN
    /\ chain = << >>
    /\ call = NoCall
    /\ result = NoResult

FromRaw(raw) ==
    /\ result' = from_raw(raw)
    /\ call' = [op |-> "from_raw", raw |-> raw]
    /\ UNCHANGED <<overflow_checks, chain>>

FromUnits(whole_units) ==
    /\ result' = from_units(whole_units)
    /\ call' = [op |-> "from_units", whole_units |-> whole_units]
    /\ UNCHANGED <<overflow_checks, chain>>

FromCanonicalStr(s) ==
    /\ result' = from_canonical_str(s)
    /\ call' = [op |-> "from_canonical_str", s |-> s]
    /\ UNCHANGED <<overflow_checks, chain>>

Zero ==
    /\ result' = Value(zero)
    /\ call' = [op |-> "zero"]
    /\ UNCHANGED <<overflow_checks, chain>>

MulScaled(self, other) ==
    /\ result' = mul_scaled(self, other)
    /\ call' = [op |-> "mul_scaled", self |-> self, other |-> other]
    /\ UNCHANGED <<overflow_checks, chain>>

DivScaled(self, other) ==
    /\ result' = div_scaled(self, other)
    /\ call' = [op |-> "div_scaled", self |-> self, other |-> other]
    /\ UNCHANGED <<overflow_checks, chain>>

CheckedAdd(self, other) ==
    /\ result' = checked_add(self, other)
    /\ call' = [op |-> "checked_add", self |-> self, other |-> other]
    /\ UNCHANGED <<overflow_checks, chain>>

CheckedSub(self, other) ==
    /\ result' = checked_sub(self, other)
    /\ call' = [op |-> "checked_sub", self |-> self, other |-> other]
    /\ UNCHANGED <<overflow_checks, chain>>

SaturatingSubForSlash(self, slash_amount) ==
    /\ result' = Value(saturating_sub_for_slash(self, slash_amount))
    /\ call' = [op |-> "saturating_sub_for_slash", self |-> self,
                other |-> slash_amount]
    /\ UNCHANGED <<overflow_checks, chain>>

ApplyDecay(balance) ==
    /\ result' = apply_decay(balance)
    /\ call' = [op |-> "apply_decay", balance |-> balance]
    /\ UNCHANGED <<overflow_checks, chain>>

ComputeEntropy(bonded, supply, unique, optimal) ==
    /\ result' = compute_entropy(bonded, supply, unique, optimal)
    /\ call' = [op |-> "compute_entropy", bonded |-> bonded, supply |-> supply,
                unique |-> unique, optimal |-> optimal]
    /\ UNCHANGED <<overflow_checks, chain>>

NextMath ==
    \/ /\ call = NoCall
       /\ \E raw \in RawInputs : FromRaw(raw)
    \/ /\ call = NoCall
       /\ \E n \in CountInputs \cup { U128_MAX } : FromUnits(n)
    \/ /\ call = NoCall
       /\ \E s \in StringInputs : FromCanonicalStr(s)
    \/ /\ call = NoCall
       /\ Zero
    \/ /\ call = NoCall
       /\ \E a, b \in FixedValues : MulScaled(a, b)
    \/ /\ call = NoCall
       /\ \E a, b \in FixedValues : DivScaled(a, b)
    \/ /\ call = NoCall
       /\ \E a, b \in FixedValues : CheckedAdd(a, b)
    \/ /\ call = NoCall
       /\ \E a, b \in FixedValues : CheckedSub(a, b)
    \/ /\ call = NoCall
       /\ \E a, b \in FixedValues : SaturatingSubForSlash(a, b)
    \/ /\ call = NoCall
       /\ \E a \in FixedValues : ApplyDecay(a)
    \/ /\ call = NoCall
       /\ \E bonded, supply \in FixedValues, unique, optimal \in CountInputs :
             ComputeEntropy(bonded, supply, unique, optimal)

SpecMath == InitMath /\ [][NextMath]_vars

\* compute_merkle_root called on its own
ComputeMerkleRoot(leaves) ==
    /\ result' = compute_merkle_root(leaves)
    /\ call' = [op |-> "compute_merkle_root", leaves |-> leaves]
    /\ UNCHANGED <<overflow_checks, chain>>

NextMerkle ==
    /\ call = NoCall
    /\ \E leaves \in LeafLists : ComputeMerkleRoot(leaves)

SpecMerkle == InitMath /\ [][NextMerkle]_vars

\* MerklePath and apply_pool_mutations on paths around the depth limit
MerklePathNew(nodes) ==
    /\ result' = MerklePath_new(nodes)
    /\ call' = [op |-> "MerklePath::new", nodes |-> nodes]
    /\ UNCHANGED <<overflow_checks, chain>>

Verify(path, leaf_hash, expected_root) ==
    /\ result' = verify(path, leaf_hash, expected_root)
    /\ call' = [op |-> "verify", path |-> path, leaf_hash |-> leaf_hash,
                expected_root |-> expected_root]
    /\ UNCHANGED <<overflow_checks, chain>>

ReconstructRoot(path, new_leaf_hash) ==
    /\ result' = Value(reconstruct_root(path, new_leaf_hash))
    /\ call' = [op |-> "reconstruct_root", path |-> path,
                new_leaf_hash |-> new_leaf_hash]
    /\ UNCHANGED <<overflow_checks, chain>>

ApplyPathMutation(current_root, mutation) ==
    /\ result' = apply_pool_mutations(current_root, <<mutation>>)
    /\ call' = [op |-> "apply_pool_mutations", current_root |-> current_root,
                mutations |-> <<mutation>>]
    /\ UNCHANGED <<overflow_checks, chain>>

NextPath ==
    \/ /\ call = NoCall
       /\ \E nodes \in NodeLists : MerklePathNew(nodes)
    \/ /\ call = NoCall
       /\ \E path \in NodeLists, leaf \in { hash_leaf(V_a), hash_leaf(V_b) } :
             \E root \in { walk(path, leaf), ZERO_DIGEST } : Verify(path, leaf, root)
    \/ /\ call = NoCall
       /\ \E path \in NodeLists, leaf \in { hash_leaf(V_a), hash_leaf(V_b) } :
             ReconstructRoot(path, leaf)
    \/ /\ call = NoCall
       /\ \E m \in PathMutations :
             \E root \in { walk(m.path, hash_leaf(m.old_value)), ZERO_DIGEST } :
                 ApplyPathMutation(root, m)

SpecPath == InitMath /\ [][NextPath]_vars

\* canonicalize called on a text, and then on what it returned
Canonicalize(input) ==
    /\ result' = canonicalize(input)
    /\ call' = [op |-> "canonicalize", input |-> input, source |-> input]
    /\ UNCHANGED <<overflow_checks, chain>>

CanonicalizeAgain ==
    /\ call.op = "canonicalize"
    /\ IsOk(result)
    /\ result' = canonicalize(result[2])
    /\ call' = [op |-> "canonicalize_again", input |-> result[2],
                source |-> call.source]
    /\ UNCHANGED <<overflow_checks, chain>>

\* parse_value called by a parser whose depth is outer: the value that
\* follows outer opening brackets and braces
ParseValue(v, outer) ==
    /\ result' = parse_value(DeepText(v), 0, outer)
    /\ call' = [op |-> "parse_value", input |-> DeepText(v),
                levels |-> v.levels, depth |-> outer]
    /\ UNCHANGED <<overflow_checks, chain>>

NextJson ==
    \/ /\ call = NoCall
       /\ \E input \in JsonTexts : Canonicalize(input)
    \/ CanonicalizeAgain
    \/ /\ call = NoCall
       /\ \E v \in DeepValues, outer \in OuterDepths : ParseValue(v, outer)

SpecJson == InitMath /\ [][NextJson]_vars

(***************************************************************************)
(* Properties                                                              *)
(***************************************************************************)

IsApplyEpoch == call.op = "apply_epoch"

IsVerifyQuorum == call.op = "verify_quorum"

PoolCallDone == call.op = "apply_pool_mutations" /\ result # NoResult

\* strictly ascending in lexicographic byte order
StrictlyAscending(keys) ==
    \A i \in 2..Len(keys) : BytesLt(keys[i - 1], keys[i])

Pubkeys(signatures) ==
    [i \in 1..Len(signatures) |-> signatures[i].validator_pubkey]

Keys(mutations) ==
    [i \in 1..Len(mutations) |-> mutations[i].key]

\* the number of mutations and of signatures is within the limits
WithinLimits(w) ==
    /\ Len(w.bond_witnesses) + Len(w.impact_witnesses) + Len(w.validator_witnesses)
          <= MAX_PAYLOADS_PER_EPOCH
    /\ Len(w.validator_signatures) <= MAX_VALIDATOR_SIGNATURES

\* steps 1 to 3 of apply_epoch find nothing wrong with the call
ReachesQuorumCheck(c) ==
    /\ WithinLimits(c.witness)
    /\ BNLe(c.witness.entropy_stats.active_bonded_magnitude_raw,
            c.witness.entropy_stats.total_supply_raw)
    /\ c.witness.entropy_stats.optimal_validator_count # << >>
    /\ c.prev.epoch_number # U64_MAX

\* SHA256(0x02 || prev.state_root || bundle_hash(w) || be8(epoch + 1) || k)
SigningRootOf(c) ==
    sha256(<<Bytes(<<2>>), c.prev.state_root, compute_bundle_hash(c.witness),
             Bytes(to_be_bytes(BNAdd(c.prev.epoch_number, BN(1)), 8)),
             c.kernel_hash>>)

\* signature i of the list was made by its validator over root
SignedOver(signatures, i, root) ==
    signatures[i].signature = Sign(signatures[i].validator_pubkey, root)

\* count < ceil(2 * optimal / 3), in exact arithmetic
BelowQuorum(count, optimal) ==
    BNLt(BN(3 * count), BNMulSmall(optimal, 2))

(* C1: every successful apply_epoch and apply_epoch_dry_run returns a state   *)
(* whose epoch_number is prev.epoch_number + 1 and whose previous_root is    *)
(* prev.state_root; so along a chain of successful transitions every state   *)
(* links to its predecessor, and from genesis the n-th state has epoch n.    *)
C1_EpochAndPreviousRootChain ==
    /\ (call.op \in {"apply_epoch", "apply_epoch_dry_run"} /\ IsOk(result)) =>
          /\ result[2].epoch_number = BNAdd(call.prev.epoch_number, BN(1))
          /\ result[2].previous_root = call.prev.state_root
    /\ \A i \in 2..Len(chain) :
          /\ chain[i].epoch_number = BNAdd(chain[i - 1].epoch_number, BN(1))
          /\ chain[i].previous_root = chain[i - 1].state_root
    /\ chain[1] = genesis =>
          \A i \in 1..Len(chain) : chain[i].epoch_number = BN(i - 1)

\* two transitions on top of genesis, the last one by apply_epoch
C1_Witness ==
    /\ chain[1] = genesis
    /\ Len(chain) >= 3
    /\ IsApplyEpoch
    /\ IsOk(result)
    /\ result[2] = chain[Len(chain)]

(* C2: apply_epoch returns either Ok with the new committed state or exactly  *)
(* one TransitionError, and on an error the caller's state is as before.     *)
C2_OkOrOneTransitionError ==
    IsApplyEpoch =>
        \/ IsOk(result) /\ Tip = result[2]
        \/ IsErr(result) /\ result[2] \in TransitionError /\ Tip = call.prev

\* the error of the earliest of steps 1 to 8 that the call violates, the
\* quorum being missing when the count is below ceil(2 * optimal / 3)
C3_EarliestViolation(c) ==
    LET w == c.witness
        stats == w.entropy_stats
        sigs == w.validator_signatures
    IN  IF ~WithinLimits(w) THEN "PayloadLimitExceeded"
        ELSE IF BNGt(stats.active_bonded_magnitude_raw, stats.total_supply_raw)
        THEN "MathOverflow"
        ELSE IF stats.optimal_validator_count = << >> THEN "DivisionByZero"
        ELSE IF c.prev.epoch_number = U64_MAX THEN "MathOverflow"
        ELSE IF ~StrictlyAscending(Pubkeys(sigs)) THEN "InvalidSerialization"
        ELSE IF \/ \E i \in 1..Len(sigs) : ~SignedOver(sigs, i, SigningRootOf(c))
                \/ BelowQuorum(Len(sigs), stats.optimal_validator_count)
        THEN "InvalidSignature"
        ELSE LET v == apply_pool_mutations(c.prev.validator_set_root,
                                           w.validator_witnesses)
                 i == apply_pool_mutations(c.prev.impact_pool_root,
                                           w.impact_witnesses)
                 b == apply_pool_mutations(c.prev.bond_pool_root, w.bond_witnesses)
             IN  IF IsErr(v) THEN v[2]
                 ELSE IF IsErr(i) THEN i[2]
                 ELSE IF IsErr(b) THEN b[2]
                 ELSE "none"

(* C3: apply_epoch checks in the order limits, entropy statistics, epoch      *)
(* increment, quorum, validator pool, impact pool, bond pool, entropy,       *)
(* commit, and returns the error of the earliest violated step; a zero       *)
(* total supply gives DivisionByZero only when quorum and pools verified.    *)
C3_ErrorOfEarliestViolatedStep ==
    IsApplyEpoch =>
        LET e == C3_EarliestViolation(call)
        IN  IF e # "none" THEN result = Err(e)
            ELSE /\ \/ IsOk(result)
                    \/ result \in { Err("MathOverflow"), Err("DivisionByZero") }
                 /\ call.witness.entropy_stats.total_supply_raw = << >>
                       => result = Err("DivisionByZero")

C5_QuorumIffTwoThirds ==
    ( /\ IsVerifyQuorum
      /\ StrictlyAscending(Pubkeys(call.signatures))
      /\ \A i \in 1..Len(call.signatures) :
            SignedOver(call.signatures, i, call.signing_root) )
    => IF BelowQuorum(Len(call.signatures), call.optimal_validator_count)
       THEN result = Err("InvalidSignature")
       ELSE result = Ok(Unit)

(* C6: verify_quorum fails with InvalidSerialization whenever the pubkeys     *)
(* are not strictly ascending, whatever the signatures and the count are,    *)
(* and so does apply_epoch once its steps 1 to 3 have passed.                *)
C6_UnorderedPubkeysInvalidSerialization ==
    /\ (IsVerifyQuorum /\ ~StrictlyAscending(Pubkeys(call.signatures)))
          => result = Err("InvalidSerialization")
    /\ ( /\ IsApplyEpoch
         /\ ReachesQuorumCheck(call)
         /\ ~StrictlyAscending(Pubkeys(call.witness.validator_signatures)) )
          => result = Err("InvalidSerialization")

\* a duplicate pubkey in a list that is below quorum and has a bad signature
C6_Witness ==
    /\ IsVerifyQuorum
    /\ Len(call.signatures) = 2
    /\ call.signatures[1].validator_pubkey = call.signatures[2].validator_pubkey
    /\ ~SignedOver(call.signatures, 1, call.signing_root)
    /\ BelowQuorum(2, call.optimal_validator_count)
    /\ result = Err("InvalidSerialization")

\* the root after mutation i of the sequence (Model A), r0 before the first
RootAfter(r0, ms, i) ==
    IF i = 0 THEN r0
    ELSE reconstruct_root(ms[i].path, hash_leaf(ms[i].new_value))

\* mutation i's path leads from its old leaf to the given root
PathReaches(ms, i, root) ==
    verify(ms[i].path, hash_leaf(ms[i].old_value), root) = Ok(Unit)

(* C7: with strictly ascending keys, apply_pool_mutations verifies each path  *)
(* against the root produced by the preceding mutation, returns the last     *)
(* root when all verify and InvalidMerkleWitness when one does not.          *)
C7_EvolvingRoot ==
    (PoolCallDone /\ StrictlyAscending(Keys(call.mutations))) =>
        LET ms == call.mutations
            r0 == call.current_root
        IN  IF \A i \in 1..Len(ms) : PathReaches(ms, i, RootAfter(r0, ms, i - 1))
            THEN result = Ok(RootAfter(r0, ms, Len(ms)))
            ELSE result = Err("InvalidMerkleWitness")

\* two mutations accepted, the second through a path the first root rejects
C7_Witness ==
    /\ PoolCallDone
    /\ Len(call.mutations) = 2
    /\ IsOk(result)
    /\ result[2] # call.current_root
    /\ ~PathReaches(call.mutations, 2, call.current_root)
    /\ call.mutations[1].new_value # call.mutations[1].old_value

\* the first mutation verifies and the second one's path is drawn against the
\* root the call was given
StaleSecondPath ==
    /\ PoolCallDone
    /\ Len(call.mutations) >= 2
    /\ StrictlyAscending(Keys(call.mutations))
    /\ PathReaches(call.mutations, 1, call.current_root)
    /\ PathReaches(call.mutations, 2, call.current_root)

C9_UnorderedKeysInvalidSerialization ==
    (PoolCallDone /\ ~StrictlyAscending(Keys(call.mutations)))
        => result = Err("InvalidSerialization")

\* reversed keys in a sequence whose first path is invalid
C9_Witness ==
    /\ PoolCallDone
    /\ Len(call.mutations) = 2
    /\ BytesLt(call.mutations[2].key, call.mutations[1].key)
    /\ ~PathReaches(call.mutations, 1, call.current_root)
    /\ result = Err("InvalidSerialization")

KeySet(mutations) == { mutations[i].key : i \in 1..Len(mutations) }

(* C10: apply_epoch rejects a bundle in which one key occurs in two of the    *)
(* bond, impact and validator mutation sequences.                            *)
C10_NoKeyInTwoPools ==
    ( /\ IsApplyEpoch
      /\ WithinLimits(call.witness)
      /\ LET b == KeySet(call.witness.bond_witnesses)
             i == KeySet(call.witness.impact_witnesses)
             v == KeySet(call.witness.validator_witnesses)
         IN  (b \cap i) \cup (b \cap v) \cup (i \cap v) # {} )
    => ~IsOk(result)

\* the mutations of all three pools of a bundle
Mutations(w) ==
    { w.bond_witnesses[i] : i \in 1..Len(w.bond_witnesses) }
    \cup { w.impact_witnesses[i] : i \in 1..Len(w.impact_witnesses) }
    \cup { w.validator_witnesses[i] : i \in 1..Len(w.validator_witnesses) }

(* C11: every mutation of a bundle accepted by apply_epoch has a key of 1 to  *)
(* 64 bytes and values of at most 4096 bytes; a bundle with an empty key, a  *)
(* longer key or a longer value is rejected with InvalidSerialization.       *)
C11_MutationSizesEnforced ==
    (IsApplyEpoch /\ IsOk(result)) =>
        \A m \in Mutations(call.witness) : validate_sizes(m) = Ok(Unit)

\* the root a pool has after an accepted sequence: the one it had when the
\* sequence is empty, else the one the last mutation's path leads to
PoolRootAfter(root, mutations) ==
    RootAfter(root, mutations, Len(mutations))

(* C12: apply_pool_mutations(r, []) returns r; in a successful apply_epoch a  *)
(* pool with an empty witness sequence keeps the root it had in prev, and    *)
(* each pool's new root comes from that pool's own mutations only.           *)
C12_PoolRootsFramed ==
    IsApplyEpoch =>
        /\ apply_pool_mutations(call.prev.validator_set_root, << >>)
              = Ok(call.prev.validator_set_root)
        /\ apply_pool_mutations(call.prev.impact_pool_root, << >>)
              = Ok(call.prev.impact_pool_root)
        /\ apply_pool_mutations(call.prev.bond_pool_root, << >>)
              = Ok(call.prev.bond_pool_root)
        /\ IsOk(result) =>
              /\ result[2].validator_set_root
                    = PoolRootAfter(call.prev.validator_set_root,
                                    call.witness.validator_witnesses)
              /\ result[2].impact_pool_root
                    = PoolRootAfter(call.prev.impact_pool_root,
                                    call.witness.impact_witnesses)
              /\ result[2].bond_pool_root
                    = PoolRootAfter(call.prev.bond_pool_root,
                                    call.witness.bond_witnesses)

\* only the validator pool is mutated and the three roots of prev differ
C12_Witness ==
    /\ IsApplyEpoch
    /\ IsOk(result)
    /\ call.witness.validator_witnesses # << >>
    /\ call.witness.impact_witnesses = << >>
    /\ call.witness.bond_witnesses = << >>
    /\ call.prev.impact_pool_root # call.prev.bond_pool_root
    /\ call.prev.impact_pool_root # call.prev.validator_set_root
    /\ result[2].validator_set_root # call.prev.validator_set_root
    /\ result[2].impact_pool_root = call.prev.impact_pool_root
    /\ result[2].bond_pool_root = call.prev.bond_pool_root

\* s with the numeric fields at the ends of their ranges
ExtremeFields(s) ==
    { [s EXCEPT !.entropy_metric_scaled = << >>, !.epoch_number = << >>],
      [s EXCEPT !.entropy_metric_scaled = U128_MAX, !.epoch_number = U64_MAX] }

\* committed is Ok of a state that commit returns unchanged
CommitsToItself(committed) ==
    IsOk(committed) /\ commit(committed[2]) = committed

\* state_root is the hash of the canonical bytes, which do not depend on it;
\* committing s again gives s; commit accepts s with any numeric fields
Committed(s) ==
    /\ s.state_root = sha256(build_commitment_json(s))
    /\ build_commitment_json([s EXCEPT !.state_root = ZERO_DIGEST])
          = build_commitment_json(s)
    /\ canonical_bytes([s EXCEPT !.state_root = ZERO_DIGEST])
          = Ok(build_commitment_json(s))
    /\ commit(s) = Ok(s)
    /\ \A x \in ExtremeFields(s) : CommitsToItself(commit(x))

(* C13: every state returned by commit, apply_epoch or apply_epoch_dry_run    *)
(* has state_root = SHA256(canonical_bytes), the canonical bytes leave       *)
(* state_root out, commit(commit(s)) = commit(s), and commit never fails.    *)
C13_StateRootCommitsToTheOtherFields ==
    /\ Committed(chain[1])
    /\ (call.op \in {"apply_epoch", "apply_epoch_dry_run"} /\ IsOk(result))
          => Committed(result[2])

\* a second transition by apply_epoch that changes a pool root
C13_Witness ==
    /\ Len(chain) = 3
    /\ IsApplyEpoch
    /\ IsOk(result)
    /\ result[2].validator_set_root # call.prev.validator_set_root
    /\ result[2].state_root \notin { call.prev.state_root, ZERO_DIGEST }

(* C14: compute_entropy returns a raw value between 0 and SCALE; for entropy  *)
(* statistics that pass validate(), the entropy_metric_scaled of the state   *)
(* apply_epoch returns is at most SCALE.                                     *)
C14_EntropyAtMostOne ==
    (IsApplyEpoch /\ IsOk(result)) =>
        BNLe(result[2].entropy_metric_scaled, SCALE)

\* the value the specification gives for the entropy: both quotients and the
\* product are floors of exact quotients, and the answer is MathOverflow when
\* a product leaves u128 or a Fixed value on the way exceeds the bound
EntropyReference(bonded, supply, unique, optimal) ==
    IF supply = << >> \/ optimal = << >> THEN Err("DivisionByZero")
    ELSE LET bonded_ratio == BNDiv(BNMul(bonded, SCALE), supply)
             unique_fixed == BNMul(unique, SCALE)
             optimal_fixed == BNMul(optimal, SCALE)
             validator_ratio == BNDiv(BNMul(unique_fixed, SCALE), optimal_fixed)
             entropy == BNDiv(BNMul(bonded_ratio, validator_ratio), SCALE)
         IN  IF \/ \E x \in { bonded_ratio, unique_fixed, optimal_fixed,
                              validator_ratio, entropy } :
                       BNGt(x, MAX_SAFE_BALANCE_RAW)
                \/ \E p \in { BNMul(bonded, SCALE), BNMul(unique_fixed, SCALE),
                              BNMul(bonded_ratio, validator_ratio) } :
                       BNGt(p, U128_MAX)
             THEN Err("MathOverflow")
             ELSE Ok(entropy)

\* C15: compute_entropy returns DivisionByZero when the supply or the optimal
\* count is zero, whatever the other arguments are; otherwise it returns
\* floor(floor(bonded * SCALE / supply) * floor(unique * SCALE * SCALE /
\* (optimal * SCALE)) / SCALE), or MathOverflow when a value on the way
\* exceeds its bound
C15_EntropyFormula ==
    call.op = "compute_entropy" =>
        result = EntropyReference(call.bonded, call.supply, call.unique,
                                  call.optimal)

\* bonded 0.5 of supply 1.0, 5 validators of an optimal 10: 0.25
C15_Witness ==
    /\ call.op = "compute_entropy"
    /\ call.bonded = HALF /\ call.supply = SCALE
    /\ call.unique = BN(5) /\ call.optimal = BN(10)
    /\ result = Ok(Limbs(<<2500, 0, 0>>))

\* the calls that hand out a Fixed
FixedOps ==
    { "from_raw", "from_units", "from_canonical_str", "zero", "mul_scaled",
      "div_scaled", "checked_add", "checked_sub", "saturating_sub_for_slash",
      "apply_decay", "compute_entropy" }

\* the call returned a Fixed
ReturnedFixed ==
    call.op \in FixedOps /\ result[1] \in { "Ok", "Value" }

\* a string of the grammar 0|[1-9][0-9]*
CanonicalNumber(s) ==
    /\ s # << >>
    /\ \A i \in 1..Len(s) : s[i] \in 48..57
    /\ s[1] = 48 => Len(s) = 1

\* the calls whose result has an exact value that can be above the bound, and
\* that value
HasExactValue ==
    \/ call.op \in { "from_raw", "from_units", "mul_scaled", "checked_add",
                     "apply_decay" }
    \/ call.op = "from_canonical_str" /\ CanonicalNumber(call.s)
    \/ call.op = "div_scaled" /\ call.other # << >>

ExactValue ==
    CASE call.op = "from_raw" -> call.raw
      [] call.op = "from_units" -> BNMul(call.whole_units, SCALE)
      [] call.op = "from_canonical_str" -> parse_decimal(call.s)
      [] call.op = "mul_scaled" -> BNDiv(BNMul(call.self, call.other), SCALE)
      [] call.op = "div_scaled" -> BNDiv(BNMul(call.self, SCALE), call.other)
      [] call.op = "checked_add" -> BNAdd(call.self, call.other)
      [] call.op = "apply_decay" ->
            BNDiv(BNMul(call.balance, DECAY_FACTOR_SCALED), SCALE)

\* C16: every Fixed that a function of the public API returns has a raw value
\* of at most u128::MAX / SCALE, and a call whose exact value would be above
\* that bound returns MathOverflow
C16_FixedWithinBound ==
    /\ ReturnedFixed => BNLe(result[2], MAX_SAFE_BALANCE_RAW)
    /\ (HasExactValue /\ BNGt(ExactValue, MAX_SAFE_BALANCE_RAW)) =>
           result = Err("MathOverflow")

\* the largest Fixed plus the smallest: one above the bound
C16_Witness ==
    /\ call.op = "checked_add"
    /\ call.self = MAX_SAFE_BALANCE_RAW /\ call.other = BN(1)
    /\ result = Err("MathOverflow")

\* floor(numerator / denominator) as a Fixed: MathOverflow when the numerator
\* does not fit a u128 or the quotient is above the bound
ScaledQuotient(numerator, denominator) ==
    IF BNGt(numerator, U128_MAX) THEN Err("MathOverflow")
    ELSE IF BNGt(BNDiv(numerator, denominator), MAX_SAFE_BALANCE_RAW)
    THEN Err("MathOverflow")
    ELSE Ok(BNDiv(numerator, denominator))

\* C17: mul_scaled returns floor(a * b / SCALE), or MathOverflow when a * b
\* does not fit a u128 or the quotient is above the bound; div_scaled returns
\* DivisionByZero when b = 0, whatever a is, and otherwise floor(a * SCALE / b)
\* or MathOverflow; checked_sub returns MathOverflow when b > a where
\* saturating_sub_for_slash returns zero; and none of the functions panics
C17_ScaledArithmetic ==
    /\ call.op = "mul_scaled" =>
           result = ScaledQuotient(BNMul(call.self, call.other), SCALE)
    /\ call.op = "div_scaled" =>
           result = IF call.other = << >> THEN Err("DivisionByZero")
                    ELSE ScaledQuotient(BNMul(call.self, SCALE), call.other)
    /\ call.op = "checked_sub" =>
           result = IF BNGt(call.other, call.self) THEN Err("MathOverflow")
                    ELSE Ok(BNSub(call.self, call.other))
    /\ call.op = "saturating_sub_for_slash" =>
           result = IF BNGt(call.other, call.self) THEN Value(<< >>)
                    ELSE Value(BNSub(call.self, call.other))
    /\ call.op \in FixedOps => result[1] # "Panic"

\* a subtraction below zero
C17_Witness ==
    /\ call.op = "checked_sub"
    /\ BNLt(call.self, call.other)
    /\ result = Err("MathOverflow")

\* the leaf hashes of a list, in the order of the list
LeafHashes(leaves) ==
    [i \in 1..Len(leaves) |-> hash_leaf(leaves[i])]

\* the smallest power of two that is at least n >= 1
PowerOfTwoAtLeast(n) ==
    CHOOSE p \in { 1, 2, 4, 8 } : p >= n /\ \A q \in { 1, 2, 4, 8 } : q >= n => p <= q

\* hashes, then its last hash repeated up to a power of two
Padded(hashes) ==
    [i \in 1..PowerOfTwoAtLeast(Len(hashes)) |->
        IF i <= Len(hashes) THEN hashes[i] ELSE hashes[Len(hashes)]]

RECURSIVE TreeRoot(_)
\* the root of the perfect binary tree over a power of two of hashes: the
\* node over the roots of its two halves
TreeRoot(hashes) ==
    IF Len(hashes) = 1 THEN hashes[1]
    ELSE hash_node(TreeRoot(SubSeq(hashes, 1, Len(hashes) \div 2)),
                   TreeRoot(SubSeq(hashes, Len(hashes) \div 2 + 1, Len(hashes))))

\* C18: compute_merkle_root returns SHA256(0x00) = hash_leaf(empty) =
\* empty_tree_root for the empty list, hash_leaf(l) for a single leaf l, and
\* otherwise the root of the perfect binary tree over the leaf hashes in the
\* order given, padded to the next power of two with the last leaf hash
C18_MerkleRootShape ==
    call.op = "compute_merkle_root" =>
        /\ call.leaves = << >> =>
               /\ result = Ok(sha256(<<Bytes(<<0>>)>>))
               /\ result = Ok(hash_leaf(<< >>))
               /\ result = Ok(empty_tree_root)
        /\ Len(call.leaves) = 1 => result = Ok(hash_leaf(call.leaves[1]))
        /\ Len(call.leaves) > 1 =>
               result = Ok(TreeRoot(Padded(LeafHashes(call.leaves))))

\* three leaves out of order: b, a, empty
C18_Witness ==
    /\ call.op = "compute_merkle_root"
    /\ call.leaves = <<(<<98>>), (<<97>>), (<< >>)>>
    /\ result = Ok(hash_node(hash_node(hash_leaf(<<98>>), hash_leaf(<<97>>)),
                              hash_node(hash_leaf(<< >>), hash_leaf(<< >>))))

\* C19: MerklePath::new accepts up to 40 nodes and rejects 41 or more with
\* InvalidMerkleWitness, and no path of more than 40 levels is walked to a
\* good end: verify does not accept one, and apply_pool_mutations does not
\* return a root that one leads to
C19_NoPathBeyondFortyLevels ==
    /\ call.op = "MerklePath::new" =>
           result = IF Len(call.nodes) <= 40 THEN Ok(call.nodes)
                    ELSE Err("InvalidMerkleWitness")
    /\ (call.op = "verify" /\ IsOk(result)) => Len(call.path) <= 40
    /\ (call.op = "apply_pool_mutations" /\ IsOk(result)) =>
           \A i \in 1..Len(call.mutations) : Len(call.mutations[i].path) <= 40

\* C20: canonicalize is idempotent: run on a text it has returned, it
\* succeeds and returns that text again
C20_CanonicalizeIdempotent ==
    call.op = "canonicalize_again" => result = Ok(call.input)

\* a text that its canonical form differs from: keys out of order, escapes
\* that are not needed, whitespace
C20_Witness ==
    /\ call.op = "canonicalize_again"
    /\ call.source # call.input
    /\ result = Ok(call.input)
    /\ \E i \in 1..Len(call.source) : call.source[i] = Ch.backslash
    /\ call.source[1] = Ch.lbrace

\* texts in which some object has one key twice: the ones made for it, and
\* the two-member objects of Objects whose keys are a and a, b and b, b and
\* b, or a_1 and a_1
HasOneKeyTwice(input) ==
    \/ input \in DuplicateTexts
    \/ /\ input \in Objects
       /\ \E k \in EqualKeys \cup { <<<<98>>, <<98>>>>,
                                    <<UEscape(<<48, 48, 54, 50>>),
                                      UEscape(<<48, 48, 54, 50>>)>>,
                                    <<<<97, Ch.underscore, 49>>,
                                      <<97, Ch.underscore, 49>>>> } :
             \E g \in { << >>, <<Ch.space>> } :
                 \E v1 \in { Quoted(<<98>>), Lit.null },
                    v2 \in { Quoted(<<97>>), Lit.true } :
                     input = <<Ch.lbrace>> \o Member(k[1], g, v1) \o <<Ch.comma>>
                                 \o g \o Member(k[2], << >>, v2) \o <<Ch.rbrace>>

(* C21: a text that is valid but for an object, at any depth, with two       *)
(* members whose decoded keys are equal fails with DuplicateKey, and neither *)
(* value is kept; a text that breaks another rule (a number, a key that is   *)
(* not ^[a-z][a-z0-9_]*$, a raw control byte, a byte order mark, bytes after *)
(* the value, a limit passed) fails with InvalidSerialization; canonicalize  *)
(* fails in no other way.                                                    *)
C21_DuplicateKeyOrInvalidSerialization ==
    /\ call.op = "canonicalize" =>
          /\ call.input \in DuplicateTexts => result = Err("DuplicateKey")
          /\ call.input \in UnduplicatedTexts \cup LimitTexts => IsOk(result)
          /\ call.input \in ViolationTexts => result = Err("InvalidSerialization")
          /\ result = Err("DuplicateKey") => HasOneKeyTwice(call.input)
          /\ ~IsOk(result) =>
                result \in { Err("DuplicateKey"), Err("InvalidSerialization") }
    /\ call.op = "parse_value" =>
          IF call.depth + call.levels > MAX_DEPTH
          THEN result = Err("InvalidSerialization")
          ELSE IsOk(result) /\ result[2].pos = Len(call.input)

\* one key twice, once written with an escape, two levels down
C21_Witness ==
    /\ call.op = "canonicalize"
    /\ call.input \in DuplicateTexts
    /\ call.input[1] = Ch.lbracket
    /\ \E i \in 1..Len(call.input) : call.input[i] = Ch.backslash
    /\ result = Err("DuplicateKey")

(* C22: apply_epoch_dry_run(prev, n, k) fails with PayloadLimitExceeded iff  *)
(* n > 10 000, whatever the epoch number; with n <= 10 000 it fails with     *)
(* MathOverflow when prev.epoch_number is u64::MAX, and otherwise returns a   *)
(* committed state with the pool roots and the entropy of prev, the kernel   *)
(* hash k and an all-zero vdf_challenge_seed.                                *)
C22_DryRunFrame ==
    call.op = "apply_epoch_dry_run" =>
        IF call.payload_count > 10000
        THEN result = Err("PayloadLimitExceeded")
        ELSE IF call.prev.epoch_number = U64_MAX
        THEN result = Err("MathOverflow")
        ELSE /\ IsOk(result)
             /\ result[2].validator_set_root = call.prev.validator_set_root
             /\ result[2].impact_pool_root = call.prev.impact_pool_root
             /\ result[2].bond_pool_root = call.prev.bond_pool_root
             /\ result[2].entropy_metric_scaled = call.prev.entropy_metric_scaled
             /\ result[2].kernel_hash = call.kernel_hash
             /\ result[2].vdf_challenge_seed = ZERO_DIGEST
             /\ result[2].state_root = sha256(build_commitment_json(result[2]))

\* a dry run of 10 000 payloads on a state that apply_epoch returned, with a
\* pool root and an entropy that are not those of genesis
C22_Witness ==
    /\ call.op = "apply_epoch_dry_run"
    /\ call.payload_count = 10000
    /\ Len(chain) = 3
    /\ call.prev = chain[2]
    /\ call.prev.validator_set_root # chain[1].validator_set_root
    /\ call.prev.entropy_metric_scaled # << >>
    /\ IsOk(result)
    /\ result[2] = chain[3]

(* C23: apply_epoch and apply_epoch_dry_run are functions of their explicit *)
(* arguments: a second replay that makes a call of the first replay again,  *)
(* with the same arguments, gets the same state or the same error.          *)
C23_ReplaysAgree ==
    call.op = "replayed" => result = call.returned

\* the same, for two replays that run the same build
C23_ReplaysOfOneBuildAgree ==
    (call.op = "replayed" /\ call.build = overflow_checks) =>
        result = call.returned

\* the least t with 3 * t >= 2 * n
CeilTwoThirds(n) ==
    IF BNModSmall(BNMulSmall(n, 2), 3) = 0
    THEN BNDivSmall(BNMulSmall(n, 2), 3)
    ELSE BNAdd(BNDivSmall(BNMulSmall(n, 2), 3), BN(1))

(* C24: for every optimal_validator_count of the u64 range the threshold of *)
(* verify_quorum is computed without overflow, wrap-around or panic and is  *)
(* the ceiling of 2 * optimal / 3.                                           *)
C24_ThresholdIsCeiling ==
    IsVerifyQuorum =>
        /\ quorum_threshold(call.optimal_validator_count)
              = Ok(CeilTwoThirds(call.optimal_validator_count))
        /\ ~IsPanic(result)

(* C25: every signature of the list is verified before the count is        *)
(* compared with the threshold: verify_quorum returns Ok only if all of     *)
(* them verify, and a list in ascending order with one signature that does  *)
(* not verify over the signing root fails with InvalidSignature, however    *)
(* many of the others verify.                                               *)
C25_OneBadSignatureFails ==
    (IsVerifyQuorum /\ StrictlyAscending(Pubkeys(call.signatures))) =>
        /\ (\E i \in 1..Len(call.signatures) :
               ~SignedOver(call.signatures, i, call.signing_root))
              => result = Err("InvalidSignature")
        /\ result = Ok(Unit)
              => \A i \in 1..Len(call.signatures) :
                    SignedOver(call.signatures, i, call.signing_root)

\* four signatures in order, three of them good, where two are enough
C25_Witness ==
    /\ IsVerifyQuorum
    /\ call.optimal_validator_count = BN(3)
    /\ Len(call.signatures) = 4
    /\ StrictlyAscending(Pubkeys(call.signatures))
    /\ Cardinality({ i \in 1..4 :
                       SignedOver(call.signatures, i, call.signing_root) }) = 3
    /\ result = Err("InvalidSignature")

\* the place of the leaf a path leads from: the side taken at every level
LeafPosition(path) ==
    [i \in 1..Len(path) |-> path[i].position]

(* C26: the key of a mutation is bound to the leaf it mutates, so that in a *)
(* call that apply_pool_mutations accepts no two mutations, whose keys are  *)
(* different, rewrite the leaf at one position.                             *)
C26_OneKeyPerLeaf ==
    (PoolCallDone /\ IsOk(result)) =>
        \A i, j \in 1..Len(call.mutations) :
            (i < j /\ call.mutations[i].key # call.mutations[j].key)
                => LeafPosition(call.mutations[i].path)
                      # LeafPosition(call.mutations[j].path)

\* the mutations without their paths
WithoutPaths(mutations) ==
    [i \in 1..Len(mutations) |-> [mutations[i] EXCEPT !.path = << >>]]

\* bundles with the triples of w: with or without the paths, with any
\* entropy statistics, with the signatures of w or with none
SameTriples(w) ==
    { StateWitnessBundle(IF paths THEN w.bond_witnesses
                         ELSE WithoutPaths(w.bond_witnesses),
                         stats,
                         IF paths THEN w.impact_witnesses
                         ELSE WithoutPaths(w.impact_witnesses),
                         IF signed THEN w.validator_signatures ELSE << >>,
                         IF paths THEN w.validator_witnesses
                         ELSE WithoutPaths(w.validator_witnesses)) :
        paths \in BOOLEAN, stats \in AllStats, signed \in BOOLEAN }

\* the signing root of the call c made with the bundle w
SigningRootWith(c, w) ==
    compute_epoch_signing_root(c.prev.state_root, compute_bundle_hash(w),
                               unchecked_u64(BNAdd(c.prev.epoch_number, BN(1)))[2],
                               c.kernel_hash)

(* C27: the bundle hash and the signing root depend on the bundle through    *)
(* the keys, old values and new values of the three mutation sequences      *)
(* only: a bundle that differs from the one of the call in the paths, the   *)
(* entropy statistics or the signatures has the same bundle hash and the    *)
(* same signing root, and the signatures of the call verify over it.        *)
C27_SigningRootOfTheTriples ==
    (IsApplyEpoch /\ call.prev.epoch_number # U64_MAX) =>
        \A h \in { compute_bundle_hash(call.witness) } :
            \A v \in SameTriples(call.witness) :
                /\ compute_bundle_hash(v) = h
                /\ SigningRootWith(call, v) = SigningRootOf(call)
                /\ \A i \in 1..Len(call.witness.validator_signatures) :
                      ed25519_verify(
                          call.witness.validator_signatures[i].validator_pubkey,
                          SigningRootWith(call, v),
                          call.witness.validator_signatures[i].signature)
                         = ed25519_verify(
                               call.witness.validator_signatures[i].validator_pubkey,
                               SigningRootOf(call),
                               call.witness.validator_signatures[i].signature)

\* an accepted bundle with two signatures and a mutation that has a path
C27_Witness ==
    /\ IsApplyEpoch
    /\ IsOk(result)
    /\ Len(call.witness.validator_signatures) = 2
    /\ call.witness.validator_witnesses # << >>
    /\ call.witness.validator_witnesses[1].path # << >>
    /\ \E v \in SameTriples(call.witness) :
          /\ v.validator_witnesses # call.witness.validator_witnesses
          /\ v.entropy_stats # call.witness.entropy_stats

\* apply_epoch does not return Ok for a bundle without signatures
C28_UnsignedNeverOk ==
    (IsApplyEpoch /\ call.witness.validator_signatures = << >>) => ~IsOk(result)

(* C28: apply_epoch never returns Ok for a bundle whose signature list is   *)
(* empty: when the checks before the signature gate pass, with any          *)
(* optimal_validator_count > 0 of the u64 range, the call stops at the gate *)
(* with InvalidSignature, before a pool root is computed.                   *)
C28_UnsignedStopsAtTheGate ==
    (IsApplyEpoch /\ call.witness.validator_signatures = << >>) =>
        /\ ~IsOk(result)
        /\ ReachesQuorumCheck(call) => result = Err("InvalidSignature")

\* lengths 1, 2, 4, 8 of the leaf lists
IsPowerOfTwo(n) == n \in { 1, 2, 4, 8 }

\* leaves with its last leaf once more
LastRepeated(leaves) == Append(leaves, leaves[Len(leaves)])

(* C29: for every non-empty leaf list L whose length is not a power of two, *)
(* compute_merkle_root(L) = compute_merkle_root(L ++ [last(L)]): the two    *)
(* different lists have one root, which the call returns as Ok.             *)
C29_LastLeafRepeatedSameRoot ==
    (/\ call.op = "compute_merkle_root"
     /\ call.leaves # << >>
     /\ ~IsPowerOfTwo(Len(call.leaves))) =>
        /\ IsOk(result)
        /\ LastRepeated(call.leaves) # call.leaves
        /\ compute_merkle_root(LastRepeated(call.leaves)) = result
        /\ Len(call.leaves) = 5 =>
               compute_merkle_root(LastRepeated(LastRepeated(call.leaves))) = result

\* a, b, a and a, b, a, a: one root
C29_Witness ==
    /\ call.op = "compute_merkle_root"
    /\ call.leaves = <<(<<97>>), (<<98>>), (<<97>>)>>
    /\ result = Ok(hash_node(hash_node(hash_leaf(<<97>>), hash_leaf(<<98>>)),
                              hash_node(hash_leaf(<<97>>), hash_leaf(<<97>>))))
    /\ result = compute_merkle_root(<<(<<97>>), (<<98>>), (<<97>>), (<<97>>)>>)

\* the three pool roots of a state are all zeros
PoolsAllZero(s) ==
    /\ s.validator_set_root = ZERO_DIGEST
    /\ s.impact_pool_root = ZERO_DIGEST
    /\ s.bond_pool_root = ZERO_DIGEST

\* the keys of a sequence are strictly ascending
KeysAscending(mutations) ==
    \A i \in 2..Len(mutations) : ~BytesGe(mutations[i - 1].key, mutations[i].key)

\* genesis has all-zero pool roots, which are not the root of the empty
\* tree, and every state of a chain that starts at genesis has them too; a
\* transition is accepted there only with three empty mutation lists
GenesisPoolsStayZero ==
    /\ PoolsAllZero(genesis)
    /\ ZERO_DIGEST # empty_tree_root
    /\ empty_tree_root = sha256(<<Bytes(<<0>>)>>)
    /\ \A i \in 1..Len(chain) : PoolsAllZero(chain[i])
    /\ (IsApplyEpoch /\ IsOk(result)) =>
           /\ call.witness.validator_witnesses = << >>
           /\ call.witness.impact_witnesses = << >>
           /\ call.witness.bond_witnesses = << >>

(* C30: genesis has all-zero pool roots, different from empty_tree_root =   *)
(* SHA256(0x00); every non-empty mutation sequence against an all-zero pool *)
(* root fails with InvalidMerkleWitness, so the three pool roots are all    *)
(* zeros in every state reachable from genesis through apply_epoch and      *)
(* apply_epoch_dry_run.                                                     *)
C30_ZeroRootFailsWithInvalidMerkleWitness ==
    /\ GenesisPoolsStayZero
    /\ (/\ call.op = "apply_pool_mutations"
        /\ call.current_root = ZERO_DIGEST
        /\ call.mutations # << >>) => result = Err("InvalidMerkleWitness")

(* C30, with the error of the ordering check: a non-empty sequence against  *)
(* an all-zero pool root fails with InvalidSerialization when its keys are  *)
(* not strictly ascending and with InvalidMerkleWitness otherwise, and the  *)
(* pool roots of every state reachable from genesis are all zeros.          *)
C30_ZeroRootFails ==
    /\ GenesisPoolsStayZero
    /\ (/\ call.op = "apply_pool_mutations"
        /\ call.current_root = ZERO_DIGEST
        /\ call.mutations # << >>) =>
           result = IF KeysAscending(call.mutations)
                    THEN Err("InvalidMerkleWitness")
                    ELSE Err("InvalidSerialization")

\* after a transition from genesis, the insert of "a" into a pool with no
\* old value and no siblings fails
C30_Witness ==
    /\ Len(chain) = 2
    /\ chain[1] = genesis
    /\ PoolsAllZero(Tip)
    /\ call.op = "apply_pool_mutations"
    /\ call.current_root = ZERO_DIGEST
    /\ call.mutations = <<mInsert>>
    /\ result = Err("InvalidMerkleWitness")

====
